---- MODULE Spec2Model ----
(***************************************************************************)
(* Model of the Yealink USB phone driver (yealink.c, revision 20080819,    *)
(* and yealink.h): the status images and the reconciliation planner        *)
(* prepare_update_cmd, the packet checksum, the Generation-1 and           *)
(* Generation-2 request cycles driven by the timer and the URB completion  *)
(* callbacks, and the open / close / suspend paths.                        *)
(***************************************************************************)
EXTENDS Integers, Sequences, FiniteSets, TLC

VARIABLES
    yld,        \* struct yealink_dev: the fields the driver reads and writes
    urb_ctl,    \* control URB:   "idle" | "inflight"
    urb_irq,    \* interrupt URB: "idle" | "inflight"
    timer,      \* yld->timer is pending (armed by mod_timer)
    pc,         \* position of every execution context inside its handler
    loc,        \* locals a handler keeps between two of its steps
    out,        \* what the last step did to the outside: URB submissions, input events
    ret,        \* return value of the last planner call / accessor
    calls,      \* planner calls that returned non-zero since master last changed
    env         \* what the USB and input cores know about the device

vars == <<yld, urb_ctl, urb_irq, timer, pc, loc, out, ret, calls, env>>

----------------------------------------------------------------------------
(* Bounds of the model *)

\* at most this many offsets differ between master and copy in a drawn image
MaxDiffs == 2
\* longest ring-note buffer drawn for the planner (bytes)
MaxNotesLen == 13
\* usb_active_sem is counted up to this value
MaxSem == 2
\* sysfs writes in one run of the request cycle
MaxWrites == 1
\* writes to one field of master before the planner runs
MaxRewrites == 2
\* (freq, dur) pairs in one ringtone upload, a closing (0,0) not counted
MaxPairs == 3
\* calls of setChar in a row
MaxChars == 2
\* scan requests in one logged sequence
MaxScans == 5
\* calls of input_open, input_close, usb_suspend, usb_resume and
\* usb_disconnect in one run
MaxPmCalls == 2

\* i = 20 in input_open: the polls of usb_active_sem after the first
OpenPolls == 20

\* i = 10 in store_ringtone: the looks at scan_active / update_active
RtPolls == 10

----------------------------------------------------------------------------
(* struct yld_status and the packet layouts *)

\* sizeof(struct yld_status)
StatusSize == 33

\* offsetof(struct yld_status, <field>)
OFS == [lcd |-> 0, led |-> 24, backlight |-> 25, speaker |-> 26, pstn |-> 27,
        keynum |-> 28, ringvol |-> 29, ringnote_mod |-> 30, ringtone |-> 31,
        dialtone |-> 32]

\* FIELD_SIZEOF(struct yld_status, lcd)
LcdSize == 24

\* byte positions inside union yld_ctl_packet
G1 == [cmd |-> 0, size |-> 1, offset |-> 2, data |-> 4, sum |-> 15]
G2 == [cmd |-> 0, data |-> 1, sum |-> 7]

\* sizeof(union yld_ctl_packet)
PktSize == 16

USB_PKT_LEN(p) == IF p = "g1" THEN 16 ELSE 8

USB_PKT_DATA_LEN(p) == IF p = "g1" THEN 11 ELSE 6

CMD == [INIT |-> 142, VERSION |-> 135, HANDSET |-> 141, KEYPRESS |-> 128,
        SCANCODE |-> 129, HOOKPRESS |-> 139, LCD |-> 4, LED |-> 5,
        RING_VOLUME |-> 17, SPEAKER |-> 12, RING_NOTE |-> 2, RINGTONE |-> 3,
        DIALTONE |-> 9, LCD_BACKLIGHT |-> 18, B2K_RING |-> 1,
        PSTN_SWITCH |-> 14, STATE_BAD_PKT |-> 253]

Byte == 0..255

\* ~v on a u8
Not8(v) == 255 - v

\* (u8)(a - b)
Sub8(a, b) == (a - b + 256) % 256

ZeroPkt == [i \in 0..(PktSize - 1) |-> 0]

----------------------------------------------------------------------------
(* Models *)

Models == {"P1K", "P4K", "B2K", "B3G", "P1KH"}

protocol(m) == IF m = "P1KH" THEN "g2" ELSE "g1"

InLcd(offset) == offset >= OFS.lcd /\ offset < OFS.lcd + LcdSize

check_feature_p1k(offset) ==
    \/ InLcd(offset)
    \/ offset = OFS.led
    \/ offset = OFS.keynum
    \/ offset = OFS.ringvol
    \/ offset = OFS.ringnote_mod
    \/ offset = OFS.ringtone

check_feature_p1kh(offset) ==
    \/ InLcd(offset)
    \/ offset = OFS.led
    \/ offset = OFS.ringvol
    \/ offset = OFS.ringnote_mod
    \/ offset = OFS.ringtone

check_feature_p4k(offset) ==
    \/ InLcd(offset)
    \/ offset = OFS.backlight
    \/ offset = OFS.speaker
    \/ offset = OFS.keynum
    \/ offset = OFS.dialtone

check_feature_b2k(offset) ==
    \/ offset = OFS.led
    \/ offset = OFS.pstn
    \/ offset = OFS.keynum
    \/ offset = OFS.ringtone
    \/ offset = OFS.dialtone

\* model->fcheck(offset)
fcheck(m, offset) ==
    CASE m = "P1K"  -> check_feature_p1k(offset)
      [] m = "P4K"  -> check_feature_p4k(offset)
      [] m = "B2K"  -> check_feature_b2k(offset)
      [] m = "B3G"  -> check_feature_b2k(offset)
      [] m = "P1KH" -> check_feature_p1kh(offset)

----------------------------------------------------------------------------
(* Packet checksum *)

RECURSIVE SumBytes(_, _, _)
\* bp[from] + ... + bp[to - 1]
SumBytes(p, from, to) ==
    IF from >= to THEN 0 ELSE p[from] + SumBytes(p, from + 1, to)

\* variant: the checksum taken over one byte too few
pkt_update_checksum_short(p, len) ==
    [p EXCEPT ![len - 1] = Sub8(0, SumBytes(p, 0, len - 2) % 256)]

\* sum = 0; for (i = 0; i < len-1; i++) sum -= bp[i]; bp[len-1] = sum;
pkt_update_checksum(p, len) ==
    [p EXCEPT ![len - 1] = Sub8(0, SumBytes(p, 0, len - 1) % 256)]

\* sum = 0; for (i = 0; i < len; i++) sum -= bp[i]; return sum;
pkt_verify_checksum(p, len) == Sub8(0, SumBytes(p, 0, len) % 256)

----------------------------------------------------------------------------
(* The reconciliation planner *)

\* ctl_data->g1.offset = cpu_to_be16(v): high byte first in memory
SetG1Offset(p, v) ==
    [p EXCEPT ![G1.offset] = (v \div 256) % 256, ![G1.offset + 1] = v % 256]

\* data = (proto == g1) ? ctl_data->g1.data : ctl_data->g2.data
DataAt(m) == IF protocol(m) = "g1" THEN G1.data ELSE G2.data

\* if (++ix >= sizeof(yld->master)) ix = 0;
NextIx(ix) == IF ix + 1 >= StatusSize THEN 0 ELSE ix + 1

RECURSIVE find_candidate_nocheck(_, _)
\* variant: the tight loop without the feature check
find_candidate_nocheck(y, ix) ==
    LET val     == y.master[ix]
        differs == val # y.copy[ix]
        y1      == IF differs THEN [y EXCEPT !.copy[ix] = val] ELSE y
    IN  IF differs
        THEN [y |-> y1, ix |-> ix, found |-> TRUE]
        ELSE IF NextIx(ix) # y.stat_ix
             THEN find_candidate_nocheck(y1, NextIx(ix))
             ELSE [y |-> y1, ix |-> NextIx(ix), found |-> FALSE]

RECURSIVE find_candidate_short(_, _)
\* variant: the tight loop giving up one offset before it is back at stat_ix
find_candidate_short(y, ix) ==
    LET val     == y.master[ix]
        differs == val # y.copy[ix]
        y1      == IF differs THEN [y EXCEPT !.copy[ix] = val] ELSE y
    IN  IF differs /\ fcheck(y.model, ix)
        THEN [y |-> y1, ix |-> ix, found |-> TRUE]
        ELSE IF NextIx(NextIx(ix)) # y.stat_ix
             THEN find_candidate_short(y1, NextIx(ix))
             ELSE [y |-> y1, ix |-> NextIx(ix), found |-> FALSE]

RECURSIVE find_candidate_forgetful(_, _)
\* variant: the tight loop leaving copy as it is
find_candidate_forgetful(y, ix) ==
    IF y.master[ix] # y.copy[ix] /\ fcheck(y.model, ix)
    THEN [y |-> y, ix |-> ix, found |-> TRUE]
    ELSE IF NextIx(ix) # y.stat_ix
         THEN find_candidate_forgetful(y, NextIx(ix))
         ELSE [y |-> y, ix |-> NextIx(ix), found |-> FALSE]

RECURSIVE find_candidate(_, _)
\* the tight loop: from ix up to (not including) stat_ix, the first offset whose
\* master and copy differ and that the model supports; copy is set to master
\* at every differing offset passed on the way
find_candidate(y, ix) ==
    LET val     == y.master[ix]
        differs == val # y.copy[ix]
        y1      == IF differs THEN [y EXCEPT !.copy[ix] = val] ELSE y
    IN  IF differs /\ fcheck(y.model, ix)
        THEN [y |-> y1, ix |-> ix, found |-> TRUE]
        ELSE IF NextIx(ix) # y.stat_ix
             THEN find_candidate(y1, NextIx(ix))
             ELSE [y |-> y1, ix |-> NextIx(ix), found |-> FALSE]

\* variant: the LED case sending the backlight command
case_led_as_backlight(y, ix, val) ==
    [y |-> [y EXCEPT !.ctl_data[G1.cmd] = CMD.LCD_BACKLIGHT,
                     !.ctl_data[DataAt(y.model)] = IF val # 0 THEN 0 ELSE 1],
     ix |-> ix]

\* case offsetof(struct yld_status, led)
case_led(y, ix, val) ==
    LET d == DataAt(y.model)
    IN  IF y.model = "B2K" \/ y.model = "B3G"
        THEN LET pstn == y.master[OFS.pstn]
             IN [y |-> [y EXCEPT !.ctl_data[G1.cmd] = CMD.LED,
                           !.ctl_data[d] = IF val # 0 /\ pstn = 0 THEN 255 ELSE 0,
                           !.ctl_data[d + 1] =
                                IF pstn # 0 \/ y.pstn_ring # 0 THEN 255 ELSE 0,
                           !.ctl_data[G1.size] = 2],
                 ix |-> ix]
        ELSE [y |-> [y EXCEPT !.ctl_data[G1.cmd] = CMD.LED,
                        !.ctl_data[d] = IF val # 0 THEN 0 ELSE 1],
              ix |-> ix]

\* the one-byte pass-through fields: cmd, data[0] = v
case_byte(y, ix, cmd, v) ==
    [y |-> [y EXCEPT !.ctl_data[G1.cmd] = cmd, !.ctl_data[DataAt(y.model)] = v],
     ix |-> ix]

RECURSIVE CopyNotes(_, _, _, _, _)
\* for (i = 0; i < len; i++) data[i] = yld->ring_notes[yld->notes_ix + i];
CopyNotes(p, d, notes, nix, len) ==
    IF len = 0 THEN p
    ELSE CopyNotes([p EXCEPT ![d + len - 1] = notes[nix + len]],
                   d, notes, nix, len - 1)

\* variant: notes_ix left at the end of the buffer after the last chunk
case_ringnote_stay(y, ix, val) ==
    IF y.ring_notes = <<>> \/ y.notes_ix >= y.notes_len
    THEN [y |-> y, ix |-> ix]
    ELSE
      LET proto == protocol(y.model)
          rest  == y.notes_len - y.notes_ix
          len   == IF rest > USB_PKT_DATA_LEN(proto)
                   THEN USB_PKT_DATA_LEN(proto) ELSE rest
          p1    == IF proto = "g1"
                   THEN [SetG1Offset(y.ctl_data, y.notes_ix) EXCEPT ![G1.size] = len]
                   ELSE y.ctl_data
          p2    == CopyNotes(p1, DataAt(y.model), y.ring_notes, y.notes_ix, len)
          p3    == [p2 EXCEPT ![G1.cmd] = CMD.RING_NOTE]
          nix   == y.notes_ix + len
      IN  IF nix < y.notes_len
          THEN [y |-> [y EXCEPT !.ctl_data = p3, !.notes_ix = nix,
                                !.copy[ix] = Not8(val)],
                ix |-> ix - 1]
          ELSE [y |-> [y EXCEPT !.ctl_data = p3, !.notes_ix = nix],
                ix |-> ix]

\* variant: the cursor moving on after every chunk
case_ringnote_on(y, ix, val) ==
    IF y.ring_notes = <<>> \/ y.notes_ix >= y.notes_len
    THEN [y |-> y, ix |-> ix]
    ELSE
      LET proto == protocol(y.model)
          rest  == y.notes_len - y.notes_ix
          len   == IF rest > USB_PKT_DATA_LEN(proto)
                   THEN USB_PKT_DATA_LEN(proto) ELSE rest
          p1    == IF proto = "g1"
                   THEN [SetG1Offset(y.ctl_data, y.notes_ix) EXCEPT ![G1.size] = len]
                   ELSE y.ctl_data
          p2    == CopyNotes(p1, DataAt(y.model), y.ring_notes, y.notes_ix, len)
          p3    == [p2 EXCEPT ![G1.cmd] = CMD.RING_NOTE]
          nix   == y.notes_ix + len
      IN  IF nix < y.notes_len
          THEN [y |-> [y EXCEPT !.ctl_data = p3, !.notes_ix = nix,
                                !.copy[ix] = Not8(val)],
                ix |-> ix]
          ELSE [y |-> [y EXCEPT !.ctl_data = p3, !.notes_ix = 0],
                ix |-> ix]

\* case offsetof(struct yld_status, ringnote_mod)
case_ringnote(y, ix, val) ==
    IF y.ring_notes = <<>> \/ y.notes_ix >= y.notes_len
    THEN [y |-> y, ix |-> ix]
    ELSE
      LET proto == protocol(y.model)
          rest  == y.notes_len - y.notes_ix
          len   == IF rest > USB_PKT_DATA_LEN(proto)
                   THEN USB_PKT_DATA_LEN(proto) ELSE rest
          p1    == IF proto = "g1"
                   THEN [SetG1Offset(y.ctl_data, y.notes_ix) EXCEPT ![G1.size] = len]
                   ELSE y.ctl_data
          p2    == CopyNotes(p1, DataAt(y.model), y.ring_notes, y.notes_ix, len)
          p3    == [p2 EXCEPT ![G1.cmd] = CMD.RING_NOTE]
          nix   == y.notes_ix + len
      IN  IF nix < y.notes_len
          THEN [y |-> [y EXCEPT !.ctl_data = p3, !.notes_ix = nix,
                                !.copy[ix] = Not8(val)],
                ix |-> ix - 1]
          ELSE [y |-> [y EXCEPT !.ctl_data = p3, !.notes_ix = 0],
                ix |-> ix]

\* case offsetof(struct yld_status, ringtone)
case_ringtone(y, ix, val) ==
    IF y.model = "P1K" \/ y.model = "P1KH"
    THEN case_byte(y, ix, CMD.RINGTONE,
                   IF y.model = "P1K"
                   THEN (IF val # 0 THEN 36 ELSE 0)
                   ELSE (IF val # 0 THEN 255 ELSE 0))
    ELSE case_byte(y, ix, CMD.B2K_RING, val)

\* variant: the LED left as it is
case_pstn_plain(y, ix, val) == case_byte(y, ix, CMD.PSTN_SWITCH, val)

\* case offsetof(struct yld_status, pstn): also forces an update of the LED
case_pstn(y, ix, val) ==
    LET r == case_byte(y, ix, CMD.PSTN_SWITCH, val)
    IN  [r EXCEPT !.y.copy[OFS.led] = Not8(y.master[OFS.led])]

\* variant: the key number taken as it is
case_keynum_raw(y, ix, val) ==
    [y |-> [y EXCEPT !.ctl_data =
               [SetG1Offset(y.ctl_data, val % 32) EXCEPT ![G1.cmd] = CMD.SCANCODE,
                                                         ![G1.size] = 1]],
     ix |-> ix]

\* case offsetof(struct yld_status, keynum)
case_keynum(y, ix, val) ==
    LET v == Sub8(val, 1) % 32
    IN  [y |-> [y EXCEPT !.ctl_data =
                    [SetG1Offset(y.ctl_data, v) EXCEPT ![G1.cmd] = CMD.SCANCODE,
                                                       ![G1.size] = 1]],
         ix |-> ix]

RECURSIVE CopyLcd(_, _, _, _)
\* for (i = 0; i < len; i++) { val = master.b[ix]; copy.b[ix] = val;
\*                             data[i] = val; ix++; }
CopyLcd(y, d, ix, len) ==
    IF len = 0 THEN y
    ELSE LET k == ix + len - 1
         IN CopyLcd([y EXCEPT !.copy[k] = y.master[k],
                              !.ctl_data[d + len - 1] = y.master[k]],
                    d, ix, len - 1)

\* variant: a Generation-2 run as long as the payload
case_lcd_wide(y, ix, val) ==
    LET offset == ix - OFS.lcd
        rest   == LcdSize - offset
        len    == IF rest > USB_PKT_DATA_LEN(protocol(y.model))
                  THEN USB_PKT_DATA_LEN(protocol(y.model)) ELSE rest
    IN  IF protocol(y.model) = "g1"
        THEN LET p == [SetG1Offset(y.ctl_data, offset) EXCEPT
                          ![G1.size] = len, ![G1.cmd] = CMD.LCD]
             IN [y |-> CopyLcd([y EXCEPT !.ctl_data = p], G1.data, ix, len),
                 ix |-> ix + len - 1]
        ELSE LET p == [y.ctl_data EXCEPT ![G2.data] = len,
                          ![G2.data + 1] = offset, ![G1.cmd] = CMD.LCD]
             IN [y |-> CopyLcd([y EXCEPT !.ctl_data = p], G2.data + 2, ix,
                               IF len > 4 THEN 4 ELSE len),
                 ix |-> ix + len - 1]

\* default: the LCD region
case_lcd(y, ix, val) ==
    LET offset == ix - OFS.lcd
        rest   == LcdSize - offset
    IN  IF protocol(y.model) = "g1"
        THEN LET len == IF rest > USB_PKT_DATA_LEN("g1")
                        THEN USB_PKT_DATA_LEN("g1") ELSE rest
                 p   == [SetG1Offset(y.ctl_data, offset) EXCEPT
                            ![G1.size] = len, ![G1.cmd] = CMD.LCD]
             IN [y |-> CopyLcd([y EXCEPT !.ctl_data = p], G1.data, ix, len),
                 ix |-> ix + len - 1]
        ELSE LET len == IF rest > USB_PKT_DATA_LEN("g2") - 2
                        THEN USB_PKT_DATA_LEN("g2") - 2 ELSE rest
                 p   == [y.ctl_data EXCEPT ![G2.data] = len,
                            ![G2.data + 1] = offset, ![G1.cmd] = CMD.LCD]
             IN [y |-> CopyLcd([y EXCEPT !.ctl_data = p], G2.data + 2, ix, len),
                 ix |-> ix + len - 1]

\* handle_difference: preset offset = 0, size = 1, then switch (ix)
handle_difference(y, ix, val) ==
    LET y0 == [y EXCEPT !.ctl_data =
                  [SetG1Offset(y.ctl_data, 0) EXCEPT ![G1.size] = 1]]
    IN  CASE ix = OFS.led          -> case_led(y0, ix, val)
          [] ix = OFS.ringvol      -> case_byte(y0, ix, CMD.RING_VOLUME, val)
          [] ix = OFS.ringnote_mod -> case_ringnote(y0, ix, val)
          [] ix = OFS.dialtone     -> case_byte(y0, ix, CMD.DIALTONE, val)
          [] ix = OFS.ringtone     -> case_ringtone(y0, ix, val)
          [] ix = OFS.backlight    -> case_byte(y0, ix, CMD.LCD_BACKLIGHT, val)
          [] ix = OFS.speaker      -> case_byte(y0, ix, CMD.SPEAKER, val)
          [] ix = OFS.pstn         -> case_pstn(y0, ix, val)
          [] ix = OFS.keynum       -> case_keynum(y0, ix, val)
          [] OTHER                 -> case_lcd(y0, ix, val)

RECURSIVE big_loop(_, _)

\* the end of one round of the do-while loop, h being what handle_difference
\* left: ++ix; while (ctl_data->cmd == 0 && ix != yld->stat_ix)
loop_end(y, h) ==
    IF h.y.ctl_data[G1.cmd] = 0 /\ NextIx(h.ix) # y.stat_ix
    THEN big_loop(h.y, NextIx(h.ix))
    ELSE [y |-> h.y, ix |-> NextIx(h.ix)]

\* one round of the do-while loop after its tight loop, f being what the
\* tight loop found: break if nothing was found, else handle_difference
loop_body(y, f) ==
    IF ~f.found THEN [y |-> f.y, ix |-> f.ix]
    ELSE loop_end(y, handle_difference(f.y, f.ix, f.y.master[f.ix]))

\* do { tight loop; break if nothing found; handle_difference; ++ix }
\* while (ctl_data->cmd == 0 && ix != yld->stat_ix)
big_loop(y, ix) == loop_body(y, find_candidate(y, ix))

\* variant: the cursor left where it was
loop_exit_stay(r) ==
    [y   |-> r.y,
     ret |-> IF r.y.ctl_data[G1.cmd] # 0 THEN 1 ELSE 0]

\* the end of prepare_update_cmd, r being what the loop left:
\* yld->stat_ix = ix; return ctl_data->cmd != 0
loop_exit(r) ==
    [y   |-> [r.y EXCEPT !.stat_ix = r.ix],
     ret |-> IF r.y.ctl_data[G1.cmd] # 0 THEN 1 ELSE 0]

\* returns ret = 0 if no packet was prepared, 1 if a command is in ctl_data
prepare_update_cmd(y) ==
    loop_exit(big_loop([y EXCEPT !.ctl_data[G1.cmd] = 0], y.stat_ix))

----------------------------------------------------------------------------
(* The LCD / icon table (lcdMap[] of yealink.h) and setChar *)

\* every cell: its type character and, in s, the <<address, mask>> pairs in the
\* order of the array u.s[] (pictograms have the single pair u.p)
lcdMap == <<
    [type |-> "1", name |-> "", s |-> <<<<0, 0>>, <<22, 2>>, <<22, 2>>, <<0, 0>>, <<0, 0>>, <<0, 0>>, <<0, 0>>>>],
    [type |-> "8", name |-> "", s |-> <<<<20, 1>>, <<20, 2>>, <<20, 4>>, <<20, 8>>, <<21, 4>>, <<21, 1>>, <<21, 2>>>>],
    [type |-> ".", name |-> "M", s |-> << <<22, 1>> >>],
    [type |-> "e", name |-> "", s |-> <<<<18, 1>>, <<18, 2>>, <<18, 4>>, <<18, 1>>, <<19, 2>>, <<19, 1>>, <<18, 1>>>>],
    [type |-> "8", name |-> "", s |-> <<<<16, 1>>, <<16, 2>>, <<16, 4>>, <<16, 8>>, <<17, 4>>, <<17, 1>>, <<17, 2>>>>],
    [type |-> ".", name |-> "D", s |-> << <<15, 8>> >>],
    [type |-> "M", name |-> "", s |-> <<<<14, 1>>, <<14, 2>>, <<14, 4>>, <<14, 1>>, <<15, 4>>, <<15, 1>>, <<15, 2>>>>],
    [type |-> "8", name |-> "", s |-> <<<<12, 1>>, <<12, 2>>, <<12, 4>>, <<12, 8>>, <<13, 4>>, <<13, 1>>, <<13, 2>>>>],
    [type |-> ".", name |-> ":", s |-> << <<11, 8>> >>],
    [type |-> "8", name |-> "", s |-> <<<<10, 1>>, <<10, 2>>, <<10, 4>>, <<10, 8>>, <<11, 4>>, <<11, 1>>, <<11, 2>>>>],
    [type |-> "8", name |-> "", s |-> <<<<8, 1>>, <<8, 2>>, <<8, 4>>, <<8, 8>>, <<9, 4>>, <<9, 1>>, <<9, 2>>>>],
    [type |-> ".", name |-> "IN", s |-> << <<7, 1>> >>],
    [type |-> ".", name |-> "OUT", s |-> << <<7, 2>> >>],
    [type |-> ".", name |-> "STORE", s |-> << <<7, 4>> >>],
    [type |-> "1", name |-> "", s |-> <<<<0, 0>>, <<5, 1>>, <<5, 1>>, <<0, 0>>, <<0, 0>>, <<0, 0>>, <<0, 0>>>>],
    [type |-> "8", name |-> "", s |-> <<<<4, 1>>, <<4, 2>>, <<4, 4>>, <<4, 8>>, <<5, 8>>, <<5, 2>>, <<5, 4>>>>],
    [type |-> "8", name |-> "", s |-> <<<<2, 1>>, <<2, 2>>, <<2, 4>>, <<2, 8>>, <<3, 4>>, <<3, 1>>, <<3, 2>>>>],
    [type |-> ".", name |-> "NEW", s |-> << <<23, 2>> >>],
    [type |-> ".", name |-> "REP", s |-> << <<23, 4>> >>],
    [type |-> ".", name |-> "SU", s |-> << <<1, 8>> >>],
    [type |-> ".", name |-> "MO", s |-> << <<1, 4>> >>],
    [type |-> ".", name |-> "TU", s |-> << <<1, 2>> >>],
    [type |-> ".", name |-> "WE", s |-> << <<1, 1>> >>],
    [type |-> ".", name |-> "TH", s |-> << <<0, 1>> >>],
    [type |-> ".", name |-> "FR", s |-> << <<0, 2>> >>],
    [type |-> ".", name |-> "SA", s |-> << <<0, 4>> >>],
    [type |-> "8", name |-> "", s |-> <<<<22, 16>>, <<22, 32>>, <<22, 64>>, <<22, 128>>, <<23, 128>>, <<23, 32>>, <<23, 64>>>>],
    [type |-> "8", name |-> "", s |-> <<<<20, 16>>, <<20, 32>>, <<20, 64>>, <<20, 128>>, <<21, 128>>, <<21, 32>>, <<21, 64>>>>],
    [type |-> "8", name |-> "", s |-> <<<<18, 16>>, <<18, 32>>, <<18, 64>>, <<18, 128>>, <<19, 128>>, <<19, 32>>, <<19, 64>>>>],
    [type |-> "8", name |-> "", s |-> <<<<16, 16>>, <<16, 32>>, <<16, 64>>, <<16, 128>>, <<17, 128>>, <<17, 32>>, <<17, 64>>>>],
    [type |-> "8", name |-> "", s |-> <<<<14, 16>>, <<14, 32>>, <<14, 64>>, <<14, 128>>, <<15, 128>>, <<15, 32>>, <<15, 64>>>>],
    [type |-> "8", name |-> "", s |-> <<<<12, 16>>, <<12, 32>>, <<12, 64>>, <<12, 128>>, <<13, 128>>, <<13, 32>>, <<13, 64>>>>],
    [type |-> "8", name |-> "", s |-> <<<<10, 16>>, <<10, 32>>, <<10, 64>>, <<10, 128>>, <<11, 128>>, <<11, 32>>, <<11, 64>>>>],
    [type |-> "8", name |-> "", s |-> <<<<8, 16>>, <<8, 32>>, <<8, 64>>, <<8, 128>>, <<9, 128>>, <<9, 32>>, <<9, 64>>>>],
    [type |-> "8", name |-> "", s |-> <<<<6, 16>>, <<6, 32>>, <<6, 64>>, <<6, 128>>, <<7, 128>>, <<7, 32>>, <<7, 64>>>>],
    [type |-> "8", name |-> "", s |-> <<<<4, 16>>, <<4, 32>>, <<4, 64>>, <<4, 128>>, <<5, 128>>, <<5, 32>>, <<5, 64>>>>],
    [type |-> "8", name |-> "", s |-> <<<<2, 16>>, <<2, 32>>, <<2, 64>>, <<2, 128>>, <<3, 128>>, <<3, 32>>, <<3, 64>>>>],
    [type |-> "8", name |-> "", s |-> <<<<0, 16>>, <<0, 32>>, <<0, 64>>, <<0, 128>>, <<1, 128>>, <<1, 32>>, <<1, 64>>>>],
    [type |-> ".", name |-> "LED", s |-> << <<24, 1>> >>],
    [type |-> ".", name |-> "DIALTONE", s |-> << <<32, 1>> >>],
    [type |-> ".", name |-> "RINGTONE", s |-> << <<31, 1>> >>],
    [type |-> ".", name |-> "BACKLIGHT", s |-> << <<25, 1>> >>],
    [type |-> ".", name |-> "SPEAKER", s |-> << <<26, 1>> >>],
    [type |-> ".", name |-> "PSTN", s |-> << <<27, 1>> >>]
>>
\* ARRAY_SIZE(lcdMap)
LcdMapSize == Len(lcdMap)

LCD_LINE == [l1 |-> [ofs |-> 0, size |-> 17], l2 |-> [ofs |-> 17, size |-> 9],
             l3 |-> [ofs |-> 26, size |-> 12], l4 |-> [ofs |-> 38, size |-> 6]]

\* bit test, set and clear for a single-bit mask m on a u8
BitSet(v, m) == (v \div m) % 2 = 1

BitOr(v, m) == IF BitSet(v, m) THEN v ELSE v + m

BitClear(v, m) == IF BitSet(v, m) THEN v - m ELSE v

\* the default 7-segment character set registered by SEG7_DEFAULT_MAP
\* (bit 0 = segment a ... bit 6 = segment g), for the characters written here;
\* the table in use is the field map_seg7 of the device record (the driver
\* keeps it in a static of the module, shared by its devices)
map_seg7 == [c \in {" ", "-", "0", "1", "2", "3", "4", "5", "6", "7", "8", "9",
                    "d", "l", "y"} |->
    CASE c = " " -> 0   [] c = "-" -> 64  [] c = "0" -> 63  [] c = "1" -> 6
      [] c = "2" -> 91  [] c = "3" -> 79  [] c = "4" -> 102 [] c = "5" -> 109
      [] c = "6" -> 125 [] c = "7" -> 7   [] c = "8" -> 127 [] c = "9" -> 111
      [] c = "d" -> 94  [] c = "l" -> 48  [] c = "y" -> 110]

RECURSIVE setSegments(_, _, _, _)
\* the loop over u.s[i]: a null mask is skipped WITHOUT consuming a bit of val
setSegments(master, s, i, val) ==
    IF i > Len(s) THEN master
    ELSE LET a == s[i][1]
             m == s[i][2]
         IN  IF m = 0 THEN setSegments(master, s, i + 1, val)
             ELSE setSegments(
                    [master EXCEPT ![a] = IF val % 2 = 1 THEN BitOr(@, m)
                                                         ELSE BitClear(@, m)],
                    s, i + 1, val \div 2)

\* variant: tab and newline stored like any other character
setChar_tabs(y, el, chr) ==
    IF el >= LcdMapSize THEN y
    ELSE LET cell == lcdMap[el + 1]
             y1   == [y EXCEPT !.lcdMap[el] = chr]
         IN  IF cell.type = "."
             THEN LET a == cell.s[1][1]
                      m == cell.s[1][2]
                  IN [y1 EXCEPT !.master[a] = IF chr # " " THEN BitOr(@, m)
                                                          ELSE BitClear(@, m)]
             ELSE [y1 EXCEPT !.master =
                      setSegments(@, cell.s, 1,
                                  IF chr \in DOMAIN map_seg7
                                  THEN y.map_seg7[chr] ELSE 0)]

\* setChar(yld, el, chr); el counts from 0
setChar(y, el, chr) ==
    IF el >= LcdMapSize THEN y
    ELSE IF chr = "\t" \/ chr = "\n" THEN y
    ELSE LET cell == lcdMap[el + 1]
             y1   == [y EXCEPT !.lcdMap[el] = chr]
         IN  IF cell.type = "."
             THEN LET a == cell.s[1][1]
                      m == cell.s[1][2]
                  IN [y1 EXCEPT !.master[a] = IF chr # " " THEN BitOr(@, m)
                                                          ELSE BitClear(@, m)]
             ELSE [y1 EXCEPT !.master = setSegments(@, cell.s, 1,
                                                    y.map_seg7[chr])]

RECURSIVE setChars(_, _, _, _)
\* for (i = 0; i < len; i++) setChar(yld, el++, buf[i]);
setChars(y, el, buf, len) ==
    IF len = 0 THEN y
    ELSE setChars(setChar(y, el, buf[1]), el + 1, Tail(buf), len - 1)

\* the part of store_line before the poke; count = strlen as passed by sysfs
store_line_chars(y, buf, count, el, len) ==
    IF ~fcheck(y.model, OFS.lcd) THEN y
    ELSE setChars(y, el, buf, IF len > count THEN count ELSE len)

----------------------------------------------------------------------------
(* Ring notes *)

default_ringtone_g1 ==
    <<239, 251, 30, 0, 12, 252, 24, 0, 12, 251, 30, 0, 12, 252, 24, 0, 12,
      251, 30, 0, 12, 252, 24, 0, 12, 251, 30, 0, 12, 252, 24, 0, 12,
      255, 255, 1, 144, 0, 0>>

default_ringtone_g2 == <<255, 30, 12, 24, 12, 0, 0>>

RECURSIVE CopyPairs(_, _, _, _)
\* while (i < size - 1) { copy buf[i], buf[i+1]; eos = both zero; i += 2;
\*                        if (eos) break; }
CopyPairs(buf, size, i, acc) ==
    IF i < size - 1
    THEN LET acc1 == acc \o <<buf[i + 1], buf[i + 2]>>
             eos  == buf[i + 1] = 0 /\ buf[i + 2] = 0
         IN  IF eos THEN [notes |-> acc1, eos |-> TRUE]
             ELSE CopyPairs(buf, size, i + 2, acc1)
    ELSE [notes |-> acc, eos |-> FALSE]

\* variant: the end-of-sequence marker appended whatever the data ends with
set_ringnotes_blind(y, buf, size) ==
    IF buf = <<>> \/ size = 0 THEN y
    ELSE LET y1 == [y EXCEPT !.master[OFS.ringvol] = buf[1]]
         IN  IF size = 1 THEN y1
             ELSE LET sz == (IF protocol(y.model) = "g2" /\ size > 4
                             THEN 4 ELSE size) - 1
                      n  == CopyPairs(Tail(buf), sz, 0, <<>>).notes \o <<0, 0>>
                  IN [y1 EXCEPT !.ring_notes = n, !.notes_len = Len(n),
                                !.notes_ix = 0]

\* the error numbers of errno.h met here
ERR == [EPIPE |-> 32, ENOMSG |-> 42, ENODATA |-> 61, EBADMSG |-> 74,
        ETIMEDOUT |-> 110, ENOMEM |-> 12, ERESTARTSYS |-> 512]

\* set_ringnotes(yld, buf, size) with kmalloc failing: the volume is set and
\* the old buffer freed (ring_notes = NULL) before the allocation, notes_len
\* and notes_ix are not reached
set_ringnotes_nomem(y, buf, size) ==
    IF buf = <<>> \/ size = 0 THEN y
    ELSE LET y1 == [y EXCEPT !.master[OFS.ringvol] = buf[1]]
         IN  IF size = 1 THEN y1
             ELSE [y1 EXCEPT !.ring_notes = <<>>]

\* what set_ringnotes returns, mem telling whether kmalloc succeeds
set_ringnotes_ret(buf, size, mem) ==
    IF buf = <<>> \/ size = 0 \/ size = 1 \/ mem THEN 0 ELSE -ERR.ENOMEM

\* set_ringnotes(yld, buf, size) with kmalloc succeeding
set_ringnotes(y, buf, size) ==
    IF buf = <<>> \/ size = 0 THEN y
    ELSE LET y1 == [y EXCEPT !.master[OFS.ringvol] = buf[1]]
         IN  IF size = 1 THEN y1
             ELSE LET sz == (IF protocol(y.model) = "g2" /\ size > 4
                             THEN 4 ELSE size) - 1
                      r  == CopyPairs(Tail(buf), sz, 0, <<>>)
                      n  == IF r.eos THEN r.notes ELSE r.notes \o <<0, 0>>
                  IN [y1 EXCEPT !.ring_notes = n, !.notes_len = Len(n),
                                !.notes_ix = 0]

----------------------------------------------------------------------------
(* Keys *)

\* the key codes of linux/input.h the driver uses, and EINVAL and ENODEV of
\* errno.h
KEY == [ESC |-> 1, K1 |-> 2, K2 |-> 3, K3 |-> 4, K4 |-> 5, K5 |-> 6, K6 |-> 7,
        K7 |-> 8, K8 |-> 9, K9 |-> 10, K0 |-> 11, BACKSPACE |-> 14, R |-> 19,
        P |-> 25, ENTER |-> 28, S |-> 31, H |-> 35, LEFTSHIFT |-> 42,
        KPASTERISK |-> 55, UP |-> 103, LEFT |-> 105, RIGHT |-> 106,
        DOWN |-> 108, VOLUMEDOWN |-> 114, VOLUMEUP |-> 115, HELP |-> 138,
        PHONE |-> 169, EINVAL |-> 22, ENODEV |-> 19]

\* KEY_LEFTSHIFT | KEY_3 << 8
KeyHash == KEY.LEFTSHIFT + KEY.K3 * 256

\* scancode & ~0xF7: bit 3 or any bit above bit 7
OutsideF7(scancode) == (scancode \div 8) % 2 = 1 \/ scancode >= 256

\* (scancode & 7) | ((scancode & 0xf0) >> 1)
PackScancode(scancode) == (scancode % 8) + ((scancode \div 16) % 16) * 8

map_p1k_to_key(scancode) ==
    LET map == <<KEY.K1, KEY.K2, KEY.K3, KEY.ENTER, KEY.RIGHT,
                 -KEY.EINVAL, -KEY.EINVAL, -KEY.EINVAL,
                 KEY.K4, KEY.K5, KEY.K6, KEY.ESC, KEY.BACKSPACE,
                 -KEY.EINVAL, -KEY.EINVAL, -KEY.EINVAL,
                 KEY.K7, KEY.K8, KEY.K9, KEY.LEFT, KEY.DOWN,
                 -KEY.EINVAL, -KEY.EINVAL, -KEY.EINVAL,
                 KEY.KPASTERISK, KEY.K0, KeyHash, KEY.UP>>
        sc  == PackScancode(scancode)
    IN  IF OutsideF7(scancode) THEN -KEY.EINVAL
        ELSE IF sc < Len(map) THEN map[sc + 1] ELSE -KEY.EINVAL

map_p4k_to_key(scancode) ==
    LET map == <<KEY.ENTER, KEY.K3, KEY.K6, KEY.K9, KeyHash, KEY.HELP,
                 -KEY.EINVAL, -KEY.EINVAL,
                 KEY.RIGHT, KEY.K2, KEY.K5, KEY.K8, KEY.K0, KEY.ESC,
                 -KEY.EINVAL, -KEY.EINVAL,
                 KEY.H, KEY.K1, KEY.K4, KEY.K7, KEY.KPASTERISK, KEY.S,
                 -KEY.EINVAL, -KEY.EINVAL,
                 KEY.DOWN, KEY.VOLUMEUP, KEY.UP, KEY.BACKSPACE, KEY.LEFT,
                 -KEY.EINVAL, -KEY.EINVAL, -KEY.EINVAL,
                 KEY.VOLUMEDOWN, -KEY.EINVAL, -KEY.EINVAL, -KEY.EINVAL, KEY.R>>
        sc  == PackScancode(scancode)
    IN  IF ~OutsideF7(scancode)
        THEN (IF sc < Len(map) THEN map[sc + 1] ELSE -KEY.EINVAL)
        ELSE IF scancode = 256 THEN KEY.PHONE ELSE -KEY.EINVAL

map_b2k_to_key(scancode) ==
    LET map  == <<KEY.K0, KEY.K1, KEY.K2, KEY.K3, KEY.K4, KEY.K5, KEY.K6,
                  KEY.K7, KEY.K8, KEY.K9, -KEY.EINVAL, KEY.KPASTERISK, KeyHash>>
        map2 == <<KEY.PHONE, KEY.P>>
    IN  IF scancode < Len(map) THEN map[scancode + 1]
        ELSE IF scancode >= 256 /\ (scancode % 16) < Len(map2)
             THEN map2[(scancode % 16) + 1]
             ELSE -KEY.EINVAL

map_p1kh_to_key(scancode) ==
    LET map == <<KEY.K1, KEY.K2, KEY.K3, KEY.ENTER, KEY.RIGHT, KEY.K4, KEY.K5,
                 KEY.K6, KEY.ESC, KEY.BACKSPACE, KEY.K7, KEY.K8, KEY.K9,
                 KEY.LEFT, KEY.DOWN, KEY.KPASTERISK, KEY.K0, KeyHash, KEY.UP>>
    IN  IF scancode < Len(map) THEN map[scancode + 1] ELSE -KEY.EINVAL

\* model->keycode(scancode)
keycode(m, scancode) ==
    CASE m = "P1K"  -> map_p1k_to_key(scancode)
      [] m = "P4K"  -> map_p4k_to_key(scancode)
      [] m = "B2K"  -> map_b2k_to_key(scancode)
      [] m = "B3G"  -> map_b2k_to_key(scancode)
      [] m = "P1KH" -> map_p1kh_to_key(scancode)

\* input events: <<"key", code, value>> and <<"sync">>
input_report_key(code, value) == <<"key", code, value>>

input_sync == <<"sync">>

\* variant: report_key that releases and presses only the low-byte key
report_key_lowonly(y, key) ==
    [y  |-> [y EXCEPT !.key_code = key],
     ev |-> (IF y.key_code >= 0
             THEN <<input_report_key(y.key_code % 256, 0)>> ELSE <<>>) \o
            (IF key >= 0 THEN <<input_report_key(key % 256, 1)>> ELSE <<>>) \o
            <<input_sync>>]

\* report_key(yld, key): the new yld and the events in the order of emission
report_key(y, key) ==
    LET up   == IF y.key_code >= 0
                THEN <<input_report_key(y.key_code % 256, 0)>> \o
                     (IF y.key_code \div 256 # 0
                      THEN <<input_report_key(y.key_code \div 256, 0)>>
                      ELSE <<>>)
                ELSE <<>>
        down == IF key >= 0
                THEN <<input_report_key(key % 256, 1)>> \o
                     (IF key \div 256 # 0
                      THEN <<input_report_key(key \div 256, 1)>> ELSE <<>>)
                ELSE <<>>
    IN  [y |-> [y EXCEPT !.key_code = key], ev |-> up \o down \o <<input_sync>>]

----------------------------------------------------------------------------
(* struct yealink_dev, init_state and restore_state *)

\* the device structure as kzalloc() returns it in usb_probe, with the model
\* update_version_init detected and the control buffer as usb_buffer_alloc
\* hands it out (every byte = g, not initialised by the driver)
NewDev(m, g) ==
    [model |-> m, open |-> FALSE, shutdown |-> FALSE, usb_active_sem |-> 0,
     pm_mutex |-> FALSE, scan_active |-> FALSE, update_active |-> FALSE,
     timer_expired |-> FALSE, usb_pause |-> FALSE, key_code |-> 0,
     last_cmd |-> 0, hookstate |-> 0, pstn_ring |-> 0, stat_ix |-> 0,
     master |-> [i \in 0..(StatusSize - 1) |-> 0],
     copy |-> [i \in 0..(StatusSize - 1) |-> 0],
     notes_ix |-> 0, notes_len |-> 0, ring_notes |-> <<>>,
     ctl_data |-> [i \in 0..(PktSize - 1) |-> g],
     lcdMap |-> [el \in 0..(LcdMapSize - 1) |-> ""],
     map_seg7 |-> map_seg7]

restore_state(y) ==
    [y EXCEPT !.copy = [i \in 0..(StatusSize - 1) |-> Not8(y.master[i])],
              !.key_code = -1, !.last_cmd = CMD.KEYPRESS, !.hookstate = 0,
              !.stat_ix = 0, !.notes_ix = 0, !.scan_active = FALSE,
              !.update_active = FALSE, !.timer_expired = FALSE,
              !.usb_pause = FALSE]

RECURSIVE clearChars(_, _)
\* for (i = 0; i < ARRAY_SIZE(lcdMap); i++) setChar(yld, i, ' ');
\* (the test on the cell just written holds always; it makes the evaluation
\* proceed cell by cell)
clearChars(y, i) ==
    IF i >= LcdMapSize THEN y
    ELSE LET y1 == setChar(y, i, " ")
         IN  IF y1.lcdMap[i] = " " THEN clearChars(y1, i + 1) ELSE y1

\* "yld-" DRIVER_VERSION and its terminating NUL (sizeof counts it)
DriverBanner == <<"y", "l", "d", "-", "2", "0", "0", "8", "0", "8", "1", "9", "">>

init_state(y) ==
    LET y1 == clearChars(y, 0)
        y2 == store_line_chars(y1, DriverBanner, Len(DriverBanner),
                               LCD_LINE.l3.ofs, LCD_LINE.l3.size)
        y3 == IF protocol(y.model) = "g1"
              THEN set_ringnotes(y2, default_ringtone_g1, Len(default_ringtone_g1))
              ELSE set_ringnotes(y2, default_ringtone_g2, Len(default_ringtone_g2))
    IN  restore_state([y3 EXCEPT !.master[OFS.pstn] = 1])

----------------------------------------------------------------------------
(* The request cycle: the parts of the handlers that run without interruption *)

\* variant: SCANCODE taken for a value write
ScanCmdsKeys == {CMD.HOOKPRESS, CMD.HANDSET, CMD.KEYPRESS}

ScanCmds == {CMD.HOOKPRESS, CMD.HANDSET, CMD.KEYPRESS, CMD.SCANCODE}

\* variant: a key scan every time
scan_request_keys(y) ==
    LET size == IF y.model = "B3G" THEN 3 ELSE 1
        sum  == Sub8(Sub8(0, size), CMD.KEYPRESS)
    IN  [y EXCEPT !.ctl_data = [ZeroPkt EXCEPT ![G1.size] = size, ![G1.sum] = sum,
                                               ![G1.cmd] = CMD.KEYPRESS],
                  !.last_cmd = CMD.KEYPRESS]

\* the packet submit_scan_request builds, and last_cmd
scan_request(y) ==
    LET size == IF y.model = "B3G" THEN 3 ELSE 1
        cmd  == IF y.last_cmd = CMD.KEYPRESS /\ y.model = "P4K" THEN CMD.HOOKPRESS
                ELSE IF y.last_cmd = CMD.KEYPRESS /\ y.model = "B2K" THEN CMD.HANDSET
                ELSE CMD.KEYPRESS
        sum  == Sub8(Sub8(0, size), cmd)
    IN  [y EXCEPT !.ctl_data = [ZeroPkt EXCEPT ![G1.size] = size, ![G1.sum] = sum,
                                               ![G1.cmd] = cmd],
                  !.last_cmd = cmd]

\* no planner run (do_update was 0 before the planner was asked)
NoUpdate(y) == [y |-> y, ret |-> 0]

\* idle = !yld->update_active && !yld->scan_active
idle(y) == ~y.update_active /\ ~y.scan_active

\* do_update of poke_update_from_userspace not looking at the cycle's flags
poke_wants_always(y) ==
    IF protocol(y.model) = "g1" THEN ~y.timer_expired ELSE TRUE

\* do_update of poke_update_from_userspace before the planner is asked
poke_wants(y) ==
    IF protocol(y.model) = "g1" THEN idle(y) /\ ~y.timer_expired
    ELSE idle(y) /\ y.timer_expired

\* the flags poke_update_from_userspace sets, p being what the planner
\* returned (on the device p.y), and the checksum of a prepared update
poke_flags(y, p) ==
    LET g1        == protocol(y.model) = "g1"
        do_scan   == g1 /\ idle(y) /\ y.timer_expired
        do_update == p.ret # 0
        y1        == [p.y EXCEPT
                        !.update_active = @ \/ do_update,
                        !.scan_active = IF g1 THEN @ \/ do_scan ELSE @,
                        !.timer_expired = IF g1 THEN @ /\ ~do_scan
                                          ELSE @ /\ ~do_update]
    IN  IF do_update
        THEN [y |-> [y1 EXCEPT !.ctl_data =
                        pkt_update_checksum(@, USB_PKT_LEN(protocol(y.model)))],
              todo |-> "upd"]
        ELSE [y |-> y1, todo |-> IF do_scan THEN "scan" ELSE "none"]

\* poke_update_from_userspace from its test of usb_pause to the end of its
\* locked section and, when an update was prepared, its checksum; todo says
\* what the caller goes on to submit
poke_locked(y) ==
    IF y.usb_pause THEN [y |-> y, todo |-> "none"]
    ELSE poke_flags(y, IF poke_wants(y) THEN prepare_update_cmd(y)
                       ELSE NoUpdate(y))

\* variant: only the key scan is not to be interrupted
dont_break_keys(y) ==
    y.stat_ix = OFS.keynum /\ y.master[y.stat_ix] # y.copy[y.stat_ix]

\* dont_break of perform_single_update_g1
dont_break(y) ==
    \/ y.stat_ix = OFS.ringnote_mod /\ y.notes_ix # 0
    \/ y.stat_ix = OFS.keynum /\ y.master[y.stat_ix] # y.copy[y.stat_ix]

\* the flags perform_single_update_g1 sets, p being what the planner returned
\* and asked telling whether it was asked, and the checksum of a prepared
\* update
perform_g1_flags(p, asked) ==
    LET do_update == p.ret # 0
        do_scan   == ~asked /\ p.y.timer_expired /\ ~p.y.usb_pause
        y1        == [p.y EXCEPT !.update_active = do_update,
                                 !.timer_expired = @ /\ ~do_scan,
                                 !.scan_active = do_scan]
    IN  IF do_update
        THEN [y |-> [y1 EXCEPT !.ctl_data = pkt_update_checksum(@, USB_PKT_LEN("g1"))],
              todo |-> "upd"]
        ELSE [y |-> y1, todo |-> IF do_scan THEN "perf_scan" ELSE "perf_none"]

\* variant: an update that was found goes first, a scan only if none was
perform_g1_greedy_flags(p) ==
    IF p.ret # 0 THEN perform_g1_flags(p, TRUE) ELSE perform_g1_flags(p, FALSE)

\* perform_single_update_g1 serving updates before scans whatever the timer
\* has noted
perform_g1_locked_greedy(y) ==
    IF ~y.usb_pause
    THEN perform_g1_greedy_flags(prepare_update_cmd(y))
    ELSE perform_g1_flags(NoUpdate(y), FALSE)

\* do_update of perform_single_update_g1 before the planner is asked
perform_g1_wants(y) == (~y.timer_expired /\ ~y.usb_pause) \/ dont_break(y)

\* perform_single_update_g1 up to the point where it looks at open / shutdown
\* (dont_break is read just before the lock is taken)
perform_g1_locked(y) ==
    IF perform_g1_wants(y)
    THEN perform_g1_flags(prepare_update_cmd(y), TRUE)
    ELSE perform_g1_flags(NoUpdate(y), FALSE)

\* the flags perform_single_update_g2 sets, p being what the planner returned
perform_g2_flags(p) ==
    LET do_update == p.ret # 0
        y1        == [p.y EXCEPT !.update_active = do_update,
                                 !.timer_expired = ~do_update]
    IN  IF do_update
        THEN [y |-> [y1 EXCEPT !.ctl_data = pkt_update_checksum(@, USB_PKT_LEN("g2"))],
              todo |-> "upd"]
        ELSE [y |-> y1, todo |-> "perf_none"]

\* perform_single_update_g2 up to the point where it looks at open / shutdown
perform_g2_locked(y) ==
    perform_g2_flags(IF ~y.usb_pause THEN prepare_update_cmd(y) ELSE NoUpdate(y))

\* timer_callback_g1 not looking at usb_pause
timer_g1_locked_nopause(y) ==
    [y |-> [y EXCEPT !.scan_active = @ \/ idle(y), !.timer_expired = ~idle(y)],
     todo |-> IF idle(y) THEN "timer_scan" ELSE "timer"]

\* timer_callback_g1 looking at scan_active only
timer_g1_locked_blind(y) ==
    LET do_submit == ~y.scan_active /\ ~y.usb_pause
    IN  [y |-> [y EXCEPT !.scan_active = @ \/ do_submit,
                         !.timer_expired = ~do_submit],
         todo |-> IF do_submit THEN "timer_scan" ELSE "timer"]

\* the locked section of timer_callback_g1
timer_g1_locked(y) ==
    LET do_submit == idle(y) /\ ~y.usb_pause
    IN  [y |-> [y EXCEPT !.scan_active = @ \/ do_submit,
                         !.timer_expired = ~do_submit],
         todo |-> IF do_submit THEN "timer_scan" ELSE "timer"]

\* bit k of a u8
Bit(v, k) == (v \div (2 ^ k)) % 2

\* variant: the hook event is reported whether the device is open or not
irq_hook_always(y, hook) ==
    IF y.hookstate = hook THEN [y |-> y, ev |-> <<>>]
    ELSE [y |-> [y EXCEPT !.hookstate = hook],
          ev |-> <<input_report_key(KEY.PHONE, hook \div 16), input_sync>>]

\* case CMD_HOOKPRESS of urb_irq_callback; hook = ~data0 & 0x10
irq_hook(y, hook) ==
    IF y.hookstate = hook THEN [y |-> y, ev |-> <<>>]
    ELSE [y |-> [y EXCEPT !.hookstate = hook],
          ev |-> IF y.open
                 THEN <<input_report_key(KEY.PHONE, hook \div 16), input_sync>>
                 ELSE <<>>]

\* case CMD_HANDSET of urb_irq_callback, falling through to CMD_HOOKPRESS;
\* data0 is the byte carrying the ring bit, p the packet
irq_handset(y, data0, p) ==
    LET ring == Bit(data0, 0)
        y1   == IF y.pstn_ring # ring THEN [y EXCEPT !.pstn_ring = ring] ELSE y
        ev1  == IF y.pstn_ring # ring /\ y.open
                THEN <<input_report_key(KEY.P, ring), input_sync>> ELSE <<>>
        \* bit 4 of (u8)(~data0 << 3), resp. of (u8)(data[2] << 4)
        b4   == IF y.model = "B2K" THEN 1 - Bit(data0, 1)
                ELSE Bit(p[G1.data + 2], 0)
        h    == irq_hook(y1, (1 - b4) * 16)
    IN  [y |-> h.y, ev |-> ev1 \o h.ev]

\* urb_irq_callback decoding a packet without the checksum test
irq_decode_nocheck(y, p) ==
    LET data0 == IF protocol(y.model) = "g1" THEN p[G1.data] ELSE p[G2.data]
        cmd   == p[G1.cmd]
    IN  CASE cmd = CMD.KEYPRESS ->
               LET y1 == [y EXCEPT !.master[OFS.keynum] = data0]
               IN  IF y.model # "B3G" THEN [y |-> y1, ev |-> <<>>]
                   ELSE irq_handset(y1, p[G1.data + 1], p)
          [] cmd = CMD.HANDSET -> irq_handset(y, data0, p)
          [] cmd = CMD.HOOKPRESS -> irq_hook(y, (1 - Bit(data0, 4)) * 16)
          [] cmd = CMD.SCANCODE ->
               IF y.open THEN report_key(y, keycode(y.model, data0))
               ELSE [y |-> y, ev |-> <<>>]
          [] OTHER -> [y |-> y, ev |-> <<>>]

\* variant: the key number stored in both images
irq_decode_both(y, p) ==
    LET d == irq_decode_nocheck(y, p)
    IN  IF pkt_verify_checksum(p, USB_PKT_LEN(protocol(y.model))) # 0
        THEN [y |-> y, ev |-> <<>>]
        ELSE [d EXCEPT !.y.copy[OFS.keynum] = d.y.master[OFS.keynum]]

\* urb_irq_callback from the checksum test to send_next, status = 0
irq_decode(y, p) ==
    LET proto == protocol(y.model)
        data0 == IF proto = "g1" THEN p[G1.data] ELSE p[G2.data]
        cmd   == p[G1.cmd]
    IN  IF pkt_verify_checksum(p, USB_PKT_LEN(proto)) # 0
        THEN [y |-> y, ev |-> <<>>]
        ELSE
          CASE cmd = CMD.KEYPRESS ->
                 LET y1 == [y EXCEPT !.master[OFS.keynum] = data0]
                 IN  IF y.model # "B3G" THEN [y |-> y1, ev |-> <<>>]
                     ELSE irq_handset(y1, p[G1.data + 1], p)
            [] cmd = CMD.HANDSET -> irq_handset(y, data0, p)
            [] cmd = CMD.HOOKPRESS -> irq_hook(y, (1 - Bit(data0, 4)) * 16)
            [] cmd = CMD.SCANCODE ->
                 IF y.open THEN report_key(y, keycode(y.model, data0))
                 ELSE [y |-> y, ev |-> <<>>]
            [] OTHER -> [y |-> y, ev |-> <<>>]

----------------------------------------------------------------------------
(* Execution contexts *)

\* tmr: the timer softirq; cb: URB completion; usr: a sysfs writer (they are
\* serialised by sysfs_rwsema); pm: the input / power-management calls; map:
\* a second process in sysfs, on the map_seg7 attribute, which takes no lock
Ctx == {"tmr", "cb", "usr", "pm", "map"}

\* what a context holds between its steps: the submission it decided on, where
\* its caller goes on, a return code, the poll counter of input_open, the URB a
\* completion handler was called for and the packet it found in irq_data
NoLoc == [todo |-> "none", retpc |-> "idle", rc |-> 0, i |-> 0, urb |-> "none",
          pkt |-> <<>>]

\* the world around the driver: the input core has the device open, the
\* interface is suspended, usb_probe has returned, usb_cleanup has freed yld;
\* writes and pmcalls count the sysfs writes and the calls of context pm
NoEnv == [users |-> FALSE, suspended |-> FALSE, registered |-> FALSE,
          gone |-> FALSE, writes |-> 0, pmcalls |-> 0]

Quiet ==
    /\ urb_ctl = "idle" /\ urb_irq = "idle" /\ timer = FALSE
    /\ pc = [c \in Ctx |-> "idle"] /\ loc = [c \in Ctx |-> NoLoc]
    /\ env = NoEnv

\* a control packet as it is handed to the USB core
Packet(p, len) == <<"pkt", p, len>>

----------------------------------------------------------------------------
(* The planner on its own: prepare_update_cmd called again and again, as    *)
(* poke_update_from_userspace and perform_single_update_g1/g2 call it, with *)
(* scan requests in between (G1)                                            *)

\* cursors the planner is started from
PlanCursors == {0, 11, 23, 24, 28, 30, 32}

\* offsets at which the drawn images differ: LCD chunk borders and every field
PlanOffsets == {0, 10, 11, 23, 24, 25, 26, 27, 28, 29, 30, 31, 32}

\* bytes left in a buffer nobody initialised
Garbage == {0, 165}

\* ring-note input of n bytes: a volume and n - 1 note bytes, no terminator
NoteBuf(n) == [k \in 1..n |-> k]

NoteInputs == {NoteBuf(0), NoteBuf(3), NoteBuf(MaxNotesLen)}

\* master = 0 everywhere except on D1, where it is 1; copy differs from master
\* exactly on D1 \cup D0
PlanImage(y, D1, D0) ==
    [y EXCEPT !.master = [i \in 0..(StatusSize - 1) |-> IF i \in D1 THEN 1 ELSE 0],
              !.copy = [i \in 0..(StatusSize - 1) |-> IF i \in D0 THEN 1 ELSE 0]]

RECURSIVE DiffSets(_)
\* the subsets of PlanOffsets with at most n elements
DiffSets(n) ==
    IF n = 0 THEN {{}}
    ELSE LET S == DiffSets(n - 1)
         IN  S \cup {D \cup {x} : D \in S, x \in PlanOffsets}

\* more packets than any drain of a drawn image needs
DrainBound == StatusSize + MaxNotesLen

InitPlan ==
    /\ \E m \in Models, g \in Garbage, ix \in PlanCursors, buf \in NoteInputs,
          D \in DiffSets(MaxDiffs) :
          \E D1 \in SUBSET D :
             yld = [set_ringnotes(
                      PlanImage([NewDev(m, g) EXCEPT !.last_cmd = CMD.KEYPRESS],
                                D1, D \ D1),
                      buf, Len(buf))
                    EXCEPT !.stat_ix = ix]
    /\ Quiet
    /\ out = <<>>
    /\ ret = -1
    /\ calls = 0

\* the status offsets an update packet writes to the device
Covered(m, p) ==
    LET cmd == p[G1.cmd]
    IN  CASE cmd = CMD.LED           -> {OFS.led}
          [] cmd = CMD.RING_VOLUME   -> {OFS.ringvol}
          [] cmd = CMD.RING_NOTE     -> {OFS.ringnote_mod}
          [] cmd = CMD.DIALTONE      -> {OFS.dialtone}
          [] cmd = CMD.RINGTONE      -> {OFS.ringtone}
          [] cmd = CMD.B2K_RING      -> {OFS.ringtone}
          [] cmd = CMD.LCD_BACKLIGHT -> {OFS.backlight}
          [] cmd = CMD.SPEAKER       -> {OFS.speaker}
          [] cmd = CMD.PSTN_SWITCH   -> {OFS.pstn}
          [] cmd = CMD.SCANCODE      -> {OFS.keynum}
          [] cmd = CMD.LCD ->
               IF protocol(m) = "g1"
               THEN LET o == p[G1.offset] * 256 + p[G1.offset + 1]
                    IN  {OFS.lcd + o + k : k \in 0..(p[G1.size] - 1)}
               ELSE {OFS.lcd + p[G2.data + 1] + k : k \in 0..(p[G2.data] - 1)}
          [] OTHER -> {}

\* one more call of prepare_update_cmd while the last one found something; a
\* prepared packet gets its checksum and is handed over
Plan ==
    /\ ret # 0
    /\ calls <= DrainBound
    /\ LET r   == prepare_update_cmd(yld)
           len == USB_PKT_LEN(protocol(yld.model))
           y1  == IF r.ret # 0
                  THEN [r.y EXCEPT !.ctl_data = pkt_update_checksum(@, len)]
                  ELSE r.y
       IN  /\ yld' = y1
           /\ ret' = r.ret
           /\ calls' = IF r.ret # 0 THEN calls + 1 ELSE calls
           /\ out' = IF r.ret # 0 THEN <<Packet(y1.ctl_data, len)>> ELSE <<>>
    /\ UNCHANGED <<urb_ctl, urb_irq, timer, pc, loc, env>>

\* submit_scan_request at any point of a drain (G1 only)
Scan ==
    /\ protocol(yld.model) = "g1"
    /\ yld' = scan_request(yld)
    /\ out' = <<Packet(yld'.ctl_data, USB_PKT_LEN("g1"))>>
    /\ UNCHANGED <<urb_ctl, urb_irq, timer, pc, loc, env, ret, calls>>

NextPlan == Plan \/ Scan

----------------------------------------------------------------------------
(* setChar on its own *)

\* the value setChar returns: -EINVAL or 0
setChar_ret(el, chr) == IF el >= LcdMapSize THEN -KEY.EINVAL ELSE 0

\* the characters written, tab and newline among them
Chars == {" ", "8", "-", "\t", "\n"}

\* the display as init_state leaves it, for any model
InitChars ==
    /\ \E m \in Models : yld = init_state(NewDev(m, 0))
    /\ Quiet
    /\ out = <<>>
    /\ ret = 0
    /\ calls = 0

\* ret = setChar(yld, el, chr), el and chr kept in loc
SetChar(el, chr) ==
    /\ calls < MaxChars
    /\ yld' = setChar(yld, el, chr)
    /\ ret' = setChar_ret(el, chr)
    /\ loc' = [loc EXCEPT !["usr"].i = el, !["usr"].pkt = <<chr>>]
    /\ calls' = calls + 1
    /\ UNCHANGED <<urb_ctl, urb_irq, timer, pc, env, out>>

NextChars == \E el \in 0..(LcdMapSize + 1), chr \in Chars : SetChar(el, chr)

SpecChars == InitChars /\ [][NextChars]_vars

----------------------------------------------------------------------------
(* set_ringnotes on its own *)

\* the (freq, dur) pairs uploaded, none of them the end-of-sequence marker
NotePairs == {<<7, 0>>, <<0, 7>>, <<7, 7>>}

RECURSIVE NoteSeqs(_)
\* the note data of n pairs
NoteSeqs(n) ==
    IF n = 0 THEN {<<>>}
    ELSE {s \o p : s \in NoteSeqs(n - 1), p \in NotePairs}

\* the buffers written to the ringtone attribute: the volume, up to MaxPairs
\* pairs, and a closing (0,0) or not
Uploads ==
    {u \in {<<v>> \o s \o e : v \in {0, 7},
                              s \in UNION {NoteSeqs(n) : n \in 0..MaxPairs},
                              e \in {<<>>, <<0, 0>>}} : Len(u) >= 3}

\* a device of any model, an upload in buf
InitNotes ==
    /\ \E m \in Models : yld = NewDev(m, 0)
    /\ urb_ctl = "idle" /\ urb_irq = "idle" /\ timer = FALSE
    /\ pc = [c \in Ctx |-> "idle"] /\ env = NoEnv
    /\ \E u \in Uploads :
          loc = [c \in Ctx |-> IF c = "usr" THEN [NoLoc EXCEPT !.pkt = u]
                               ELSE NoLoc]
    /\ out = <<>>
    /\ ret = -1
    /\ calls = 0

\* ret = set_ringnotes(yld, buf, count)
SetRingnotes ==
    /\ ret = -1
    /\ yld' = set_ringnotes(yld, loc["usr"].pkt, Len(loc["usr"].pkt))
    /\ ret' = 0
    /\ UNCHANGED <<urb_ctl, urb_irq, timer, pc, loc, env, out, calls>>

NextNotes == SetRingnotes

SpecNotes == InitNotes /\ [][NextNotes]_vars

----------------------------------------------------------------------------
(* Writes to one single-byte field of master before the planner runs *)

\* the icon cells of lcdMap that stand for a field of their own (el from 0)
FieldIcons == {el \in 0..(LcdMapSize - 1) :
                 lcdMap[el + 1].type = "." /\ ~InLcd(lcdMap[el + 1].s[1][1])}

\* the volumes written
Volumes == {0, 7, 200}

\* the device is at rest with copy equal to master, the cursor anywhere
InitWrites ==
    /\ \E m \in Models, g \in Garbage, ix \in PlanCursors :
          yld = [NewDev(m, g) EXCEPT !.last_cmd = CMD.KEYPRESS, !.stat_ix = ix]
    /\ Quiet
    /\ out = <<>>
    /\ ret = -1
    /\ calls = 0

\* the planner has not run yet and one more write to offset a is due
MayWrite(a) ==
    /\ calls = 0 /\ ret = -1
    /\ env.writes < MaxRewrites
    /\ fcheck(yld.model, a)
    /\ env.writes = 0 \/ loc["usr"].i = a

\* the setChar of set_icon on a cell that stands for a field of its own
WriteIcon(el, chr) ==
    /\ MayWrite(lcdMap[el + 1].s[1][1])
    /\ yld' = setChar(yld, el, chr)
    /\ loc' = [loc EXCEPT !["usr"].i = lcdMap[el + 1].s[1][1]]
    /\ env' = [env EXCEPT !.writes = @ + 1]
    /\ UNCHANGED <<urb_ctl, urb_irq, timer, pc, out, ret, calls>>

\* set_ringnotes with a buffer of one byte: the volume alone
WriteVolume(v) ==
    /\ MayWrite(OFS.ringvol)
    /\ yld' = set_ringnotes(yld, <<v>>, 1)
    /\ loc' = [loc EXCEPT !["usr"].i = OFS.ringvol]
    /\ env' = [env EXCEPT !.writes = @ + 1]
    /\ UNCHANGED <<urb_ctl, urb_irq, timer, pc, out, ret, calls>>

NextWrites ==
    \/ \E el \in FieldIcons, chr \in {" ", "x"} : WriteIcon(el, chr)
    \/ \E v \in Volumes : WriteVolume(v)
    \/ Plan

SpecWrites == InitWrites /\ [][NextWrites]_vars

SpecPlan == InitPlan /\ [][NextPlan]_vars

\* a writer changes master at offset k at once after the planner has staged a
\* packet that covers k (the decoder for keynum, a sysfs writer elsewhere)
Rewrite(k) ==
    /\ env.writes < MaxWrites
    /\ Len(out) = 1 /\ k \in Covered(yld.model, out[1][2])
    /\ yld' = [yld EXCEPT !.master[k] = (@ + 1) % 256]
    /\ loc' = [loc EXCEPT !["usr"].i = k]
    /\ env' = [env EXCEPT !.writes = @ + 1]
    /\ UNCHANGED <<urb_ctl, urb_irq, timer, pc, out, ret, calls>>

\* ring-note input that takes three packets on a Generation-1 device
LongNotes == NoteBuf(2 * USB_PKT_DATA_LEN("g1") + 1)

\* a device that takes ring notes, with notes set and ringnote_mod changed,
\* next to at most one other difference
InitUpload ==
    /\ \E m \in {n \in Models : fcheck(n, OFS.ringnote_mod)}, g \in Garbage,
          ix \in PlanCursors, buf \in (NoteInputs \ {NoteBuf(0)}) \cup {LongNotes},
          D \in DiffSets(1) :
             yld = [set_ringnotes(
                      PlanImage([NewDev(m, g) EXCEPT !.last_cmd = CMD.KEYPRESS],
                                D \cup {OFS.ringnote_mod}, {}),
                      buf, Len(buf))
                    EXCEPT !.stat_ix = ix]
    /\ Quiet
    /\ out = <<>>
    /\ ret = -1
    /\ calls = 0

\* The planner draining an image with a ring-note upload in it.
SpecUpload == InitUpload /\ [][Plan]_vars

\* The planner draining a drawn image while a field it has served changes again.
NextFair == Plan \/ \E k \in 0..(StatusSize - 1) : Rewrite(k)

SpecFair == InitPlan /\ [][NextFair]_vars

----------------------------------------------------------------------------
(* The probe packets of update_version_init *)

\* the VERSION packet built in a kmalloc'ed buffer buf
version_packet(proto, buf) ==
    LET p == IF proto = "g1"
             THEN [SetG1Offset(buf, 0) EXCEPT ![G1.cmd] = CMD.VERSION, ![G1.size] = 2]
             ELSE [buf EXCEPT ![G1.cmd] = CMD.VERSION]
    IN  pkt_update_checksum(p, USB_PKT_LEN(proto))

\* the INIT packet, built in the buffer that held the VERSION packet
init_packet(proto, buf) ==
    LET p == IF proto = "g1"
             THEN [SetG1Offset(buf, 0) EXCEPT ![G1.cmd] = CMD.INIT,
                                              ![G1.size] = USB_PKT_DATA_LEN("g1")]
             ELSE [buf EXCEPT ![G1.cmd] = CMD.INIT]
    IN  pkt_update_checksum(p, USB_PKT_LEN(proto))

\* buffer positions whose uninitialised content is varied
GarbageAt == {0, 1, 3, 4, 6, 7, 15}

\* usb_probe has chosen the provisional model from the packet length and
\* update_version_init has allocated its buffer, kept here in yld.ctl_data
InitProbe ==
    /\ \E m \in {"P1K", "P1KH"}, G \in SUBSET GarbageAt :
          yld = [NewDev(m, 0) EXCEPT
                   !.ctl_data = [i \in 0..(PktSize - 1) |->
                                    IF i \in G THEN 165 ELSE 90]]
    /\ urb_ctl = "idle" /\ urb_irq = "idle" /\ timer = FALSE
    /\ pc = [c \in Ctx |-> IF c = "pm" THEN "probe_version" ELSE "idle"]
    /\ loc = [c \in Ctx |-> NoLoc]
    /\ env = NoEnv
    /\ out = <<>>
    /\ ret = -1
    /\ calls = 0

ProbeVersion ==
    /\ pc["pm"] = "probe_version"
    /\ LET proto == protocol(yld.model)
       IN  /\ yld' = [yld EXCEPT !.ctl_data = version_packet(proto, @)]
           /\ out' = <<Packet(yld'.ctl_data, USB_PKT_LEN(proto))>>
    /\ pc' = [pc EXCEPT !["pm"] = "probe_init"]
    /\ UNCHANGED <<urb_ctl, urb_irq, timer, loc, env, ret, calls>>

ProbeInit ==
    /\ pc["pm"] = "probe_init"
    /\ LET proto == protocol(yld.model)
       IN  /\ yld' = [yld EXCEPT !.ctl_data = init_packet(proto, @)]
           /\ out' = <<Packet(yld'.ctl_data, USB_PKT_LEN(proto))>>
    /\ pc' = [pc EXCEPT !["pm"] = "probe_done"]
    /\ UNCHANGED <<urb_ctl, urb_irq, timer, loc, env, ret, calls>>

NextProbe == ProbeVersion \/ ProbeInit

\* every builder of control packets: the probes, the planner, the scan request
SpecPackets == (InitPlan \/ InitProbe) /\ [][NextPlan \/ NextProbe]_vars

----------------------------------------------------------------------------
(* Inbound SCANCODE packets on an open device *)

\* a well-formed inbound packet
InPacket(proto, cmd, d0, d1, d2) ==
    pkt_update_checksum(
        IF proto = "g1"
        THEN [ZeroPkt EXCEPT ![G1.cmd] = cmd, ![G1.size] = 1, ![G1.data] = d0,
                             ![G1.data + 1] = d1, ![G1.data + 2] = d2]
        ELSE [ZeroPkt EXCEPT ![G2.cmd] = cmd, ![G2.data] = d0,
                             ![G2.data + 1] = d1, ![G2.data + 2] = d2],
        USB_PKT_LEN(proto))

InitKeys ==
    /\ \E m \in Models :
          yld = [restore_state(NewDev(m, 0)) EXCEPT !.open = TRUE]
    /\ Quiet
    /\ out = <<>>
    /\ ret = -1
    /\ calls = 0

\* urb_irq_callback decodes a SCANCODE packet carrying any scancode byte
ScancodeIn ==
    /\ \E data0 \in Byte :
          LET d == irq_decode(yld, InPacket(protocol(yld.model), CMD.SCANCODE,
                                            data0, 0, 0))
          IN  /\ yld' = d.y
              /\ out' = d.ev
    /\ UNCHANGED <<urb_ctl, urb_irq, timer, pc, loc, env, ret, calls>>

SpecKeys == InitKeys /\ [][ScancodeIn]_vars

----------------------------------------------------------------------------
(* The request cycle as a state machine.  A handler is cut where other      *)
(* contexts can get in between: after its section under flags_lock (step 1),*)
(* after it has read yld->open / yld->shutdown (step "S") and at the        *)
(* submission itself (step "X").                                            *)

InFlight(u) == IF u = "ctl" THEN urb_ctl = "inflight" ELSE urb_irq = "inflight"

\* a control transfer or the interrupt read answering it is outstanding
Busy == urb_ctl = "inflight" \/ urb_irq = "inflight"

\* usb_kill_urb(u) is under way: usb_submit_urb(u) is rejected
Rejecting(u) ==
    \/ u = "ctl" /\ pc["pm"] = "kill_ctl"
    \/ u = "irq" /\ pc["pm"] = "kill_irq"

\* the completion handler of u is running
InCallback(u) == pc["cb"] # "idle" /\ loc["cb"].urb = u

Set(c, p, l) ==
    /\ pc' = [pc EXCEPT ![c] = p]
    /\ loc' = [loc EXCEPT ![c] = l]

\* the handler returns rc to whoever called it
Return(c, rc) ==
    Set(c, loc[c].retpc,
        IF c \in {"pm", "usr"} THEN [NoLoc EXCEPT !.rc = rc] ELSE NoLoc)

\* after the locked section: go on to submit todo, or return 0
Decide(c, todo, retpc, u) ==
    IF todo = "none"
    THEN Set(c, retpc, NoLoc)
    ELSE Set(c, "S", [NoLoc EXCEPT !.todo = todo, !.retpc = retpc, !.urb = u])

\* the end of a locked section that left r: the device is r.y and the handler
\* goes on to submit r.todo
Unlock(c, r, retpc, u) ==
    /\ yld' = r.y
    /\ Decide(c, r.todo, retpc, u)

\* a call of usb_submit_urb(u) as seen from outside
Submit(u, busy, accepted) == <<"submit", u, busy, accepted>>

\* timer_callback_g1 / timer_callback_g2: the timer expires
TimerFire ==
    /\ ~env.gone
    /\ timer /\ pc["tmr"] = "idle"
    /\ timer' = FALSE
    /\ Unlock("tmr", IF protocol(yld.model) = "g1" THEN timer_g1_locked(yld)
                      ELSE perform_g2_locked(yld), "idle", "none")
    /\ out' = <<>>
    /\ UNCHANGED <<urb_ctl, urb_irq, ret, calls, env>>

\* the handler in context c reads yld->open and yld->shutdown:
\* "else if (!yld->open) up(&yld->usb_active_sem)" and "if (!yld->shutdown)"
Look(c) ==
    /\ ~env.gone
    /\ pc[c] = "S"
    /\ LET t == loc[c].todo
       IN  IF t \in {"perf_scan", "perf_none"} /\ ~yld.open
           THEN /\ yld' = [yld EXCEPT !.usb_active_sem =
                                         IF @ < MaxSem THEN @ + 1 ELSE @]
                /\ Return(c, 0)
           ELSE IF t = "perf_none" \/ yld.shutdown
           THEN /\ yld' = yld
                /\ Return(c, 0)
           ELSE /\ yld' = yld
                /\ Set(c, "X", loc[c])
    /\ out' = <<>>
    /\ UNCHANGED <<urb_ctl, urb_irq, timer, ret, calls, env>>

\* the handler in context c re-arms the timer and / or calls usb_submit_urb;
\* ok is what the USB core answers for a URB that is neither in flight nor
\* being killed
Act(c, ok) ==
    /\ ~env.gone
    /\ pc[c] = "X"
    /\ LET t   == loc[c].todo
           y1  == IF t \in {"perf_scan", "scan", "timer_scan"}
                  THEN scan_request(yld) ELSE yld
           u   == IF t = "irq" THEN "irq" ELSE IF t = "timer" THEN "none" ELSE "ctl"
           acc == u # "none" /\ ok /\ ~Rejecting(u) /\ ~InFlight(u)
           len == USB_PKT_LEN(protocol(yld.model))
       IN  /\ yld' = y1
           /\ timer' = IF t \in {"timer", "timer_scan"} THEN TRUE ELSE timer
           /\ urb_ctl' = IF u = "ctl" /\ acc THEN "inflight" ELSE urb_ctl
           /\ urb_irq' = IF u = "irq" /\ acc THEN "inflight" ELSE urb_irq
           /\ out' = CASE u = "none" -> <<>>
                       [] u = "irq"  -> <<Submit(u, Busy, acc)>>
                       [] u = "ctl"  -> <<Submit(u, Busy, acc),
                                          Packet(y1.ctl_data, len)>>
           /\ Return(c, IF u # "none" /\ ~acc THEN 1 ELSE 0)
    /\ UNCHANGED <<ret, calls, env>>

\* urb_ctl_callback: the control transfer completes with status st
CtlComplete(st) ==
    /\ ~env.gone
    /\ urb_ctl = "inflight" /\ pc["cb"] = "idle"
    /\ urb_ctl' = "idle"
    /\ IF st = "ESHUTDOWN"
       THEN /\ yld' = yld
            /\ UNCHANGED <<pc, loc>>
       ELSE IF protocol(yld.model) = "g2"
       THEN /\ yld' = yld
            /\ Decide("cb", "timer", "idle", "ctl")
       ELSE IF yld.ctl_data[G1.cmd] \in ScanCmds
       THEN /\ yld' = yld
            /\ Decide("cb", "irq", "idle", "ctl")
       ELSE Unlock("cb", perform_g1_locked(yld), "idle", "ctl")
    /\ out' = <<>>
    /\ UNCHANGED <<urb_irq, timer, ret, calls, env>>

\* a packet whose checksum does not verify
Corrupt(p, len) == [p EXCEPT ![len - 1] = (@ + 1) % 256]

\* the data bytes the device is taken to answer with
RespData(cmd) ==
    CASE cmd = CMD.KEYPRESS  -> {0, 1}
      [] cmd = CMD.SCANCODE  -> {3, 255}
      [] cmd = CMD.HOOKPRESS -> {0, 16}
      [] cmd = CMD.HANDSET   -> {0, 1, 2}
      [] OTHER               -> {0}

\* the command an interrupt packet answers: on G1 the request in ctl_data, on
\* G2 a key the device pushes
RespCmd(y) ==
    IF protocol(y.model) = "g1" THEN y.ctl_data[G1.cmd] ELSE CMD.SCANCODE

\* what the device may send on the interrupt endpoint: well-formed, corrupted,
\* or the "bad packet" state
Responses(y) ==
    LET proto == protocol(y.model)
        cmd   == RespCmd(y)
        more  == IF y.model = "B3G" /\ cmd = CMD.KEYPRESS THEN {0, 1} ELSE {0}
        good  == {InPacket(proto, cmd, d0, d1, d2) :
                     d0 \in RespData(cmd), d1 \in more, d2 \in more}
    IN  good \cup {Corrupt(InPacket(proto, cmd, 1, 0, 0), USB_PKT_LEN(proto)),
                   InPacket(proto, CMD.STATE_BAD_PKT, 0, 0, 0)}

\* a device nobody touches: no key is down (key number 0, scancode 0xff),
\* the handset is on the hook, the line does not ring; or a corrupted packet
QuietResponses(y) ==
    LET proto == protocol(y.model)
        cmd   == RespCmd(y)
        d0    == CASE cmd = CMD.SCANCODE  -> 255
                   [] cmd = CMD.HOOKPRESS -> 16
                   [] cmd = CMD.HANDSET   -> 2
                   [] OTHER               -> 0
    IN  {InPacket(proto, cmd, d0, 0, 0),
         Corrupt(InPacket(proto, cmd, 1, 0, 0), USB_PKT_LEN(proto))}

\* urb_irq_callback after send_next, r being what perform_single_update_g1
\* left (G1) or the decision to resubmit urb_irq (G2); pkt is the packet the
\* handler was called with
irq_unlock(pkt, r) ==
    /\ yld' = r.y
    /\ Set("cb", "S", [NoLoc EXCEPT !.todo = r.todo, !.urb = "irq", !.pkt = pkt])

\* urb_irq_callback giving up after a transfer that ended with an error
send_next_giveup(pkt, d) ==
    /\ out' = d.ev
    /\ irq_unlock(pkt, IF protocol(d.y.model) = "g1" THEN perform_g1_locked(d.y)
                       ELSE [y |-> d.y,
                             todo |-> IF DOMAIN pkt = {} THEN "perf_none" ELSE "irq"])

\* urb_irq_callback from send_next on, d being what the decoding left
send_next(pkt, d) ==
    /\ out' = d.ev
    /\ irq_unlock(pkt, IF protocol(d.y.model) = "g1" THEN perform_g1_locked(d.y)
                       ELSE [y |-> d.y, todo |-> "irq"])

\* urb_irq_callback: the interrupt transfer completes with status st and, if
\* st is "ok", packet p in irq_data
IrqComplete(st, p) ==
    /\ ~env.gone
    /\ urb_irq = "inflight" /\ pc["cb"] = "idle"
    /\ urb_irq' = "idle"
    /\ IF st = "ESHUTDOWN"
       THEN /\ yld' = yld
            /\ out' = <<>>
            /\ UNCHANGED <<pc, loc>>
       ELSE send_next(IF st = "ok" THEN p ELSE <<>>,
                      IF st = "ok" THEN irq_decode(yld, p)
                      ELSE [y |-> yld, ev |-> <<>>])
    /\ UNCHANGED <<urb_ctl, timer, ret, calls, env>>

\* the cell a sysfs writer switches in this model: the LED
WriteEls == {38}

\* set_icon (show_icon / hide_icon) on cell el, up to the end of the locked
\* section of its poke_update_from_userspace
SetIcon(el, chr) ==
    /\ ~env.gone /\ env.registered /\ env.writes < MaxWrites
    /\ pc["usr"] = "idle"
    /\ lcdMap[el + 1].type = "."
    /\ fcheck(yld.model, lcdMap[el + 1].s[1][1])
    /\ Unlock("usr", poke_locked(setChar(yld, el, chr)), "idle", "none")
    /\ env' = [env EXCEPT !.writes = @ + 1]
    /\ out' = <<>>
    /\ UNCHANGED <<urb_ctl, urb_irq, timer, ret, calls>>

\* store_ringtone begins (the model supports ring notes): int ret = count;
\* usb_pause = 1; i = 10
StoreRingtone(buf) ==
    /\ ~env.gone /\ env.registered /\ env.writes < MaxWrites
    /\ pc["usr"] = "idle"
    /\ fcheck(yld.model, OFS.ringnote_mod)
    /\ yld' = [yld EXCEPT !.usb_pause = TRUE]
    /\ Set("usr", "rt_poll", [NoLoc EXCEPT !.i = RtPolls])
    /\ env' = [env EXCEPT !.writes = @ + 1]
    /\ ret' = Len(buf)
    /\ out' = <<>>
    /\ UNCHANGED <<urb_ctl, urb_irq, timer, calls>>

\* one round of while (i-- > 0) { stopped = !scan_active && !update_active;
\* if (stopped) break; msleep_interruptible(50); }
RtPoll ==
    /\ ~env.gone
    /\ pc["usr"] = "rt_poll"
    /\ IF idle(yld) THEN Set("usr", "rt_write", NoLoc)
       ELSE IF loc["usr"].i > 1
       THEN Set("usr", "rt_poll", [loc["usr"] EXCEPT !.i = @ - 1])
       ELSE Set("usr", "rt_fail", NoLoc)
    /\ out' = <<>>
    /\ UNCHANGED <<yld, urb_ctl, urb_irq, timer, ret, calls, env>>

\* if (stopped) { set_ringnotes(yld, buf, count); yld->master.s.ringnote_mod++;
RtWrite(buf) ==
    /\ ~env.gone
    /\ pc["usr"] = "rt_write"
    /\ Len(buf) = ret
    /\ yld' = [set_ringnotes(yld, buf, Len(buf)) EXCEPT
                 !.master[OFS.ringnote_mod] = (@ + 1) % 256]
    /\ Set("usr", "rt_unpause", NoLoc)
    /\ out' = <<>>
    /\ UNCHANGED <<urb_ctl, urb_irq, timer, ret, calls, env>>

\* the same with the kmalloc of set_ringnotes failing: its return value is
\* not looked at
RtWriteNoMem(buf) ==
    /\ ~env.gone
    /\ pc["usr"] = "rt_write"
    /\ Len(buf) = ret
    /\ yld' = [set_ringnotes_nomem(yld, buf, Len(buf)) EXCEPT
                 !.master[OFS.ringnote_mod] = (@ + 1) % 256]
    /\ Set("usr", "rt_unpause", NoLoc)
    /\ out' = <<>>
    /\ UNCHANGED <<urb_ctl, urb_irq, timer, ret, calls, env>>

\* yld->usb_pause = 0 after the write, before the poke
RtUnpause ==
    /\ ~env.gone
    /\ pc["usr"] = "rt_unpause"
    /\ yld' = [yld EXCEPT !.usb_pause = FALSE]
    /\ Set("usr", "rt_poke", NoLoc)
    /\ out' = <<>>
    /\ UNCHANGED <<urb_ctl, urb_irq, timer, ret, calls, env>>

\* the else branch: yld->usb_pause = 0; err("Could not stop update cycle to
\* write ringnotes!"); return ret, which is count since the entry
RtFail ==
    /\ ~env.gone
    /\ pc["usr"] = "rt_fail"
    /\ yld' = [yld EXCEPT !.usb_pause = FALSE]
    /\ Set("usr", "idle", NoLoc)
    /\ out' = <<>>
    /\ UNCHANGED <<urb_ctl, urb_irq, timer, ret, calls, env>>

\* the poke_update_from_userspace of store_ringtone, up to the end of its
\* locked section
RtPoke ==
    /\ ~env.gone
    /\ pc["usr"] = "rt_poke"
    /\ Unlock("usr", poke_locked(yld), "rt_ret", "none")
    /\ out' = <<>>
    /\ UNCHANGED <<urb_ctl, urb_irq, timer, ret, calls, env>>

\* if (poke_update_from_userspace(yld) != 0) ret = -ERESTARTSYS; return ret
RtRet ==
    /\ ~env.gone
    /\ pc["usr"] = "rt_ret"
    /\ ret' = IF loc["usr"].rc # 0 THEN -ERR.ERESTARTSYS ELSE ret
    /\ Set("usr", "idle", NoLoc)
    /\ out' = <<>>
    /\ UNCHANGED <<yld, urb_ctl, urb_irq, timer, calls, env>>

\* the buffers written to the ringtone attribute
RingInputs == {NoteBuf(3), NoteBuf(MaxNotesLen)}

\* store_ringtone
Ringtone ==
    \/ \E buf \in RingInputs : StoreRingtone(buf)
    \/ RtPoll
    \/ \E buf \in RingInputs : RtWrite(buf)
    \/ RtUnpause
    \/ RtFail
    \/ RtPoke
    \/ RtRet

----------------------------------------------------------------------------
(* The 7-segment translation table: store_map and show_map, which take no   *)
(* lock, and store_line, which holds sysfs_rwsema for writing.  A memcpy    *)
(* moves one entry at a time, in no fixed order; entries that are the same  *)
(* in every table stored are left out.                                      *)

\* sizeof(map_seg7), in entries of the table kept here
MapSize == Cardinality(DOMAIN map_seg7)

\* another character set, and the tables written to the attribute
AltMap == [map_seg7 EXCEPT !["8"] = 0, !["-"] = 127]

MapTables == {map_seg7, AltMap}

\* the entries in which the tables differ
MapChars == {c \in DOMAIN map_seg7 : \E t \in MapTables : t[c] # map_seg7[c]}

\* the buffers written to line 1
LineInputs == {<<"8", "8">>, <<"8", "-">>, <<"-", "8">>}

\* sysfs_rwsema as the sysfs writer of context usr holds it
sysfs_rwsema == IF pc["usr"] \in {"sl_char", "sl_ret"} THEN "write" ELSE "free"

\* a suspended device: stop_traffic has left usb_pause set, nothing is in
\* flight, the timer is deleted
InitMap ==
    /\ \E m \in Models :
          yld = [init_state(NewDev(m, 0)) EXCEPT !.usb_pause = TRUE]
    /\ urb_ctl = "idle" /\ urb_irq = "idle" /\ timer = FALSE
    /\ pc = [c \in Ctx |-> "idle"] /\ loc = [c \in Ctx |-> NoLoc]
    /\ env = [NoEnv EXCEPT !.registered = TRUE, !.suspended = TRUE]
    /\ out = <<>>
    /\ ret = 0
    /\ calls = 0

\* store_map: if (cnt != sizeof(map_seg7)) return -EINVAL; the memcpy begins
StoreMap(buf, cnt) ==
    /\ pc["map"] = "idle"
    /\ IF cnt # MapSize
       THEN /\ ret' = -KEY.EINVAL
            /\ UNCHANGED <<pc, loc>>
       ELSE /\ Set("map", "sm_copy", [NoLoc EXCEPT !.pkt = buf])
            /\ ret' = ret
    /\ out' = <<>>
    /\ UNCHANGED <<yld, urb_ctl, urb_irq, timer, calls, env>>

\* memcpy(&map_seg7, buf, sizeof(map_seg7)) moves the entry of c
MapCopy(c) ==
    /\ pc["map"] = "sm_copy"
    /\ yld.map_seg7[c] # loc["map"].pkt[c]
    /\ yld' = [yld EXCEPT !.map_seg7[c] = loc["map"].pkt[c]]
    /\ out' = <<>>
    /\ UNCHANGED <<urb_ctl, urb_irq, timer, pc, loc, ret, calls, env>>

\* the memcpy is through: return sizeof(map_seg7)
MapDone ==
    /\ pc["map"] = "sm_copy"
    /\ yld.map_seg7 = loc["map"].pkt
    /\ Set("map", "idle", NoLoc)
    /\ ret' = MapSize
    /\ out' = <<>>
    /\ UNCHANGED <<yld, urb_ctl, urb_irq, timer, calls, env>>

\* show_map begins: nothing of buf is written yet (-1)
ShowMap ==
    /\ pc["usr"] = "idle"
    /\ Set("usr", "shm_copy", [NoLoc EXCEPT !.pkt = [c \in MapChars |-> -1]])
    /\ out' = <<>>
    /\ UNCHANGED <<yld, urb_ctl, urb_irq, timer, ret, calls, env>>

\* memcpy(buf, &map_seg7, sizeof(map_seg7)) moves the entry of c
ShowMapCopy(c) ==
    /\ pc["usr"] = "shm_copy"
    /\ loc["usr"].pkt[c] = -1
    /\ loc' = [loc EXCEPT !["usr"].pkt[c] = yld.map_seg7[c]]
    /\ out' = <<>>
    /\ UNCHANGED <<yld, urb_ctl, urb_irq, timer, pc, ret, calls, env>>

\* show_map: return sizeof(map_seg7)
ShowMapRet ==
    /\ pc["usr"] = "shm_copy"
    /\ \A c \in MapChars : loc["usr"].pkt[c] # -1
    /\ Set("usr", "idle", NoLoc)
    /\ ret' = MapSize
    /\ out' = <<>>
    /\ UNCHANGED <<yld, urb_ctl, urb_irq, timer, calls, env>>

\* store_line1 begins: down_write(&sysfs_rwsema); ret = count; the fcheck;
\* if (len > count) len = count
StoreLine(buf) ==
    /\ env.registered
    /\ pc["usr"] = "idle"
    /\ IF ~fcheck(yld.model, OFS.lcd)
       THEN UNCHANGED <<pc, loc>>
       ELSE Set("usr", "sl_char",
                [NoLoc EXCEPT !.i = LCD_LINE.l1.ofs,
                              !.pkt = SubSeq(buf, 1,
                                        IF LCD_LINE.l1.size > Len(buf)
                                        THEN Len(buf) ELSE LCD_LINE.l1.size)])
    /\ ret' = Len(buf)
    /\ out' = <<>>
    /\ UNCHANGED <<yld, urb_ctl, urb_irq, timer, calls, env>>

\* setChar(yld, el++, buf[i])
LineChar ==
    /\ pc["usr"] = "sl_char"
    /\ loc["usr"].pkt # <<>>
    /\ yld' = setChar(yld, loc["usr"].i, Head(loc["usr"].pkt))
    /\ loc' = [loc EXCEPT !["usr"].i = @ + 1, !["usr"].pkt = Tail(@)]
    /\ out' = <<>>
    /\ UNCHANGED <<urb_ctl, urb_irq, timer, pc, ret, calls, env>>

\* the poke_update_from_userspace of store_line, up to the end of its locked
\* section
LinePoke ==
    /\ pc["usr"] = "sl_char"
    /\ loc["usr"].pkt = <<>>
    /\ Unlock("usr", poke_locked(yld), "sl_ret", "none")
    /\ out' = <<>>
    /\ UNCHANGED <<urb_ctl, urb_irq, timer, ret, calls, env>>

\* if (poke_update_from_userspace(yld) != 0) ret = -ERESTARTSYS;
\* up_write(&sysfs_rwsema); return ret
LineRet ==
    /\ pc["usr"] = "sl_ret"
    /\ ret' = IF loc["usr"].rc # 0 THEN -ERR.ERESTARTSYS ELSE ret
    /\ Set("usr", "idle", NoLoc)
    /\ out' = <<>>
    /\ UNCHANGED <<yld, urb_ctl, urb_irq, timer, calls, env>>

NextMap ==
    \/ \E buf \in MapTables, cnt \in {MapSize, MapSize - 1} : StoreMap(buf, cnt)
    \/ \E c \in MapChars : MapCopy(c)
    \/ MapDone
    \/ ShowMap
    \/ \E c \in MapChars : ShowMapCopy(c)
    \/ ShowMapRet
    \/ \E buf \in LineInputs : StoreLine(buf)
    \/ LineChar
    \/ LinePoke
    \/ LineRet

SpecMap == InitMap /\ [][NextMap]_vars

----------------------------------------------------------------------------
(* start_traffic, stop_traffic and the calls that use them.  The calls of    *)
(* this section are taken one at a time (context pm): input_open,           *)
(* input_close, usb_suspend and usb_resume exclude each other by pm_mutex;  *)
(* usb_disconnect is taken to arrive while none of them is running.         *)

\* start_traffic(yld, with_key_scan) on y up to its call of
\* poke_update_from_userspace; ok is the answer of usb_submit_urb(urb_irq)
StartTraffic(y, with_key_scan, retpc, ok) ==
    LET g1  == protocol(y.model) = "g1"
        y1  == [y EXCEPT !.usb_pause = FALSE, !.timer_expired = ~g1]
        sub == with_key_scan /\ ~g1 /\ ~y1.shutdown
        acc == sub /\ ok /\ ~Rejecting("irq") /\ ~InFlight("irq")
    IN  /\ yld' = y1
        /\ timer' = IF with_key_scan /\ g1 /\ ~y1.shutdown THEN TRUE ELSE timer
        /\ urb_irq' = IF acc THEN "inflight" ELSE urb_irq
        /\ out' = IF sub THEN <<Submit("irq", Busy, acc)>> ELSE <<>>
        /\ IF y1.shutdown THEN Set("pm", retpc, NoLoc)
           ELSE IF sub /\ ~acc THEN Set("pm", retpc, [NoLoc EXCEPT !.rc = 1])
           ELSE Set("pm", "st_poke", [NoLoc EXCEPT !.retpc = retpc])
        /\ UNCHANGED <<urb_ctl, ret, calls>>

\* the poke_update_from_userspace of start_traffic, up to the end of its
\* locked section
StartPoke ==
    /\ ~env.gone
    /\ pc["pm"] = "st_poke"
    /\ Unlock("pm", poke_locked(yld), loc["pm"].retpc, "none")
    /\ out' = <<>>
    /\ UNCHANGED <<urb_ctl, urb_irq, timer, ret, calls, env>>

\* stop_traffic begins: usb_pause = 1; shutdown = 1; then usb_kill_urb(urb_irq)
StopTraffic(y, retpc) ==
    /\ yld' = [y EXCEPT !.usb_pause = TRUE, !.shutdown = TRUE]
    /\ Set("pm", "kill_irq", [NoLoc EXCEPT !.retpc = retpc])
    /\ out' = <<>>
    /\ UNCHANGED <<urb_ctl, urb_irq, timer, ret, calls>>

\* usb_kill_urb(urb_irq) returns: the URB is not in flight and its completion
\* handler is not running
KillIrq ==
    /\ ~env.gone
    /\ pc["pm"] = "kill_irq"
    /\ urb_irq = "idle" /\ ~InCallback("irq")
    /\ Set("pm", "kill_ctl", loc["pm"])
    /\ out' = <<>>
    /\ UNCHANGED <<yld, urb_ctl, urb_irq, timer, ret, calls, env>>

\* usb_kill_urb(urb_ctl) returns
KillCtl ==
    /\ ~env.gone
    /\ pc["pm"] = "kill_ctl"
    /\ urb_ctl = "idle" /\ ~InCallback("ctl")
    /\ Set("pm", "stop_del", loc["pm"])
    /\ out' = <<>>
    /\ UNCHANGED <<yld, urb_ctl, urb_irq, timer, ret, calls, env>>

\* del_timer_sync returns (the timer handler is not running); shutdown = 0;
\* stop_traffic returns
StopDel ==
    /\ ~env.gone
    /\ pc["pm"] = "stop_del"
    /\ pc["tmr"] = "idle"
    /\ timer' = FALSE
    /\ yld' = [yld EXCEPT !.shutdown = FALSE]
    /\ Set("pm", loc["pm"].retpc, NoLoc)
    /\ out' = <<>>
    /\ UNCHANGED <<urb_ctl, urb_irq, ret, calls, env>>

\* usb_probe after start_traffic(yld, 0): on failure usb_cleanup, otherwise the
\* sysfs group and the input device get registered
ProbeRet ==
    /\ ~env.gone
    /\ pc["pm"] = "probe_ret"
    /\ IF loc["pm"].rc # 0
       THEN /\ StopTraffic([yld EXCEPT !.open = FALSE,
                               !.usb_active_sem = IF @ < MaxSem THEN @ + 1 ELSE @],
                           "cleanup_free")
            /\ env' = env
       ELSE /\ Set("pm", "idle", NoLoc)
            /\ env' = [env EXCEPT !.registered = TRUE]
            /\ out' = <<>>
            /\ UNCHANGED <<yld, urb_ctl, urb_irq, timer, ret, calls>>

\* input_open: mutex_lock(&yld->pm_mutex); i = 20
InputOpen ==
    /\ ~env.gone /\ env.registered /\ ~env.suspended /\ ~env.users
    /\ env.pmcalls < MaxPmCalls
    /\ pc["pm"] = "idle" /\ ~yld.pm_mutex
    /\ yld' = [yld EXCEPT !.pm_mutex = TRUE]
    /\ Set("pm", "open_wait", [NoLoc EXCEPT !.i = OpenPolls])
    /\ env' = [env EXCEPT !.pmcalls = @ + 1]
    /\ out' = <<>>
    /\ UNCHANGED <<urb_ctl, urb_irq, timer, ret, calls>>

\* while ((ret = down_trylock(&yld->usb_active_sem)) && i--) msleep(100);
\* if (ret != 0) return -ERESTARTSYS;    (pm_mutex stays locked)
OpenWait ==
    /\ ~env.gone
    /\ pc["pm"] = "open_wait"
    /\ IF yld.usb_active_sem > 0
       THEN /\ yld' = [yld EXCEPT !.usb_active_sem = @ - 1]
            /\ Set("pm", "open_init", NoLoc)
       ELSE IF loc["pm"].i > 0
       THEN /\ yld' = yld
            /\ Set("pm", "open_wait", [loc["pm"] EXCEPT !.i = @ - 1])
       ELSE /\ yld' = yld
            /\ Set("pm", "idle", NoLoc)
    /\ out' = <<>>
    /\ UNCHANGED <<urb_ctl, urb_irq, timer, ret, calls, env>>

\* init_state(yld); yld->open = 1; ret = start_traffic(yld, 1) up to its poke
OpenInit(ok) ==
    /\ ~env.gone
    /\ pc["pm"] = "open_init"
    /\ StartTraffic([init_state(yld) EXCEPT !.open = TRUE], TRUE, "open_ret", ok)
    /\ env' = env

\* if (ret != 0) { up(&yld->usb_active_sem); yld->open = 0; } mutex_unlock
OpenRet ==
    /\ ~env.gone
    /\ pc["pm"] = "open_ret"
    /\ IF loc["pm"].rc # 0
       THEN /\ yld' = [yld EXCEPT !.usb_active_sem = IF @ < MaxSem THEN @ + 1 ELSE @,
                                  !.open = FALSE, !.pm_mutex = FALSE]
            /\ env' = env
       ELSE /\ yld' = [yld EXCEPT !.pm_mutex = FALSE]
            /\ env' = [env EXCEPT !.users = TRUE]
    /\ Set("pm", "idle", NoLoc)
    /\ out' = <<>>
    /\ UNCHANGED <<urb_ctl, urb_irq, timer, ret, calls>>

\* input_close: mutex_lock; open = 0; shutdown = 1
InputClose ==
    /\ ~env.gone /\ env.users /\ env.pmcalls < MaxPmCalls
    /\ pc["pm"] = "idle" /\ ~yld.pm_mutex
    /\ yld' = [yld EXCEPT !.pm_mutex = TRUE, !.open = FALSE, !.shutdown = TRUE]
    /\ Set("pm", "close_del", NoLoc)
    /\ env' = [env EXCEPT !.pmcalls = @ + 1]
    /\ out' = <<>>
    /\ UNCHANGED <<urb_ctl, urb_irq, timer, ret, calls>>

\* input_close: del_timer_sync returns; shutdown = 0; mutex_unlock
CloseDel ==
    /\ ~env.gone
    /\ pc["pm"] = "close_del"
    /\ pc["tmr"] = "idle"
    /\ timer' = FALSE
    /\ yld' = [yld EXCEPT !.shutdown = FALSE, !.pm_mutex = FALSE]
    /\ env' = [env EXCEPT !.users = FALSE]
    /\ Set("pm", "idle", NoLoc)
    /\ out' = <<>>
    /\ UNCHANGED <<urb_ctl, urb_irq, ret, calls>>

\* usb_suspend: mutex_lock; stop_traffic begins
UsbSuspend ==
    /\ ~env.gone /\ env.registered /\ ~env.suspended
    /\ env.pmcalls < MaxPmCalls
    /\ pc["pm"] = "idle" /\ ~yld.pm_mutex
    /\ StopTraffic([yld EXCEPT !.pm_mutex = TRUE], "suspend_ret")
    /\ env' = [env EXCEPT !.pmcalls = @ + 1]

\* usb_suspend: stop_traffic has returned; mutex_unlock
SuspendRet ==
    /\ ~env.gone
    /\ pc["pm"] = "suspend_ret"
    /\ yld' = [yld EXCEPT !.pm_mutex = FALSE]
    /\ env' = [env EXCEPT !.suspended = TRUE]
    /\ Set("pm", "idle", NoLoc)
    /\ out' = <<>>
    /\ UNCHANGED <<urb_ctl, urb_irq, timer, ret, calls>>

\* usb_resume: mutex_lock; restore_state; start_traffic(yld, 1) up to its poke
UsbResume(ok) ==
    /\ ~env.gone /\ env.registered /\ env.suspended
    /\ env.pmcalls < MaxPmCalls
    /\ pc["pm"] = "idle" /\ ~yld.pm_mutex
    /\ StartTraffic(restore_state([yld EXCEPT !.pm_mutex = TRUE]), TRUE,
                    "resume_ret", ok)
    /\ env' = [env EXCEPT !.pmcalls = @ + 1]

\* usb_resume: mutex_unlock
ResumeRet ==
    /\ ~env.gone
    /\ pc["pm"] = "resume_ret"
    /\ yld' = [yld EXCEPT !.pm_mutex = FALSE]
    /\ env' = [env EXCEPT !.suspended = FALSE]
    /\ Set("pm", "idle", NoLoc)
    /\ out' = <<>>
    /\ UNCHANGED <<urb_ctl, urb_irq, timer, ret, calls>>

\* usb_disconnect: the sysfs group is removed under sysfs_rwsema (no writer is
\* inside), then usb_cleanup: open = 0; up(&usb_active_sem); stop_traffic
UsbDisconnect ==
    /\ ~env.gone /\ env.registered /\ env.pmcalls < MaxPmCalls
    /\ pc["pm"] = "idle" /\ pc["usr"] = "idle"
    /\ StopTraffic([yld EXCEPT !.open = FALSE,
                       !.usb_active_sem = IF @ < MaxSem THEN @ + 1 ELSE @],
                   "cleanup_free")
    /\ env' = [env EXCEPT !.registered = FALSE, !.pmcalls = @ + 1]

\* usb_cleanup: stop_traffic has returned; the buffers, the URBs and yld are freed
CleanupFree ==
    /\ ~env.gone
    /\ pc["pm"] = "cleanup_free"
    /\ env' = [env EXCEPT !.gone = TRUE, !.users = FALSE]
    /\ Set("pm", "idle", NoLoc)
    /\ out' = <<>>
    /\ UNCHANGED <<yld, urb_ctl, urb_irq, timer, ret, calls>>

----------------------------------------------------------------------------
(* The specifications of the request cycle *)

\* the models the open session is run for
CycleModels == {"P1K", "P1KH"}

\* the models the life of the device is run for
LifeModels == {"P1K"}

\* the handlers of the cycle; F: the answers usb_submit_urb may give,
\* S: the completion statuses, R: the packets the device may answer with
Cycle(F, S, R) ==
    \/ TimerFire
    \/ \E c \in Ctx : Look(c)
    \/ \E c \in Ctx, ok \in F : Act(c, ok)
    \/ \E st \in S : CtlComplete(st)
    \/ \E st \in S : \E p \in R : IrqComplete(st, p)
    \/ \E el \in WriteEls, chr \in {" ", "x"} : SetIcon(el, chr)
    \/ StartPoke

Lifecycle(F) ==
    \/ ProbeRet
    \/ InputOpen
    \/ OpenWait
    \/ \E ok \in F : OpenInit(ok)
    \/ OpenRet
    \/ InputClose
    \/ CloseDel
    \/ UsbSuspend
    \/ KillIrq
    \/ KillCtl
    \/ StopDel
    \/ SuspendRet
    \/ \E ok \in F : UsbResume(ok)
    \/ ResumeRet
    \/ UsbDisconnect
    \/ CleanupFree

\* The life of a device from usb_probe on.  usb_probe has run init_state and is
\* inside start_traffic(yld, 0), about to call poke_update_from_userspace.
\* Every submission is accepted unless the URB is in flight or being killed,
\* every transfer completes, and nobody touches the keys.
Init ==
    /\ \E m \in LifeModels, g \in Garbage :
          yld = [init_state(NewDev(m, g)) EXCEPT
                    !.timer_expired = protocol(m) = "g2"]
    /\ urb_ctl = "idle" /\ urb_irq = "idle" /\ timer = FALSE
    /\ pc = [c \in Ctx |-> IF c = "pm" THEN "st_poke" ELSE "idle"]
    /\ loc = [c \in Ctx |-> IF c = "pm" THEN [NoLoc EXCEPT !.retpc = "probe_ret"]
                            ELSE NoLoc]
    /\ env = NoEnv
    /\ out = <<>>
    /\ ret = 0
    /\ calls = 0

Next == Cycle({TRUE}, {"ok", "err"}, QuietResponses(yld)) \/ Lifecycle({TRUE})

Spec == Init /\ [][Next]_vars

----------------------------------------------------------------------------
(* usb_probe from the packet size to the start of traffic *)

\* the version ranges of yealink.h
YLD_IS_P1K(v) == v >= 256 /\ v <= 511

YLD_IS_P4K(v) == v >= 560 /\ v <= 767

\* variant: one range from 0x0520 to 0x058f
YLD_IS_B2K_wide(v) == v >= 1312 /\ v <= 1423

YLD_IS_B2K(v) == (v >= 1312 /\ v <= 1343) \/ (v >= 1392 /\ v <= 1423)

YLD_IS_B3G(v) == v >= 1344 /\ v <= 1391

\* info_idx of update_version_init; "none" is model_info_unknown
select_model(version) ==
    IF YLD_IS_P1K(version) THEN "P1K"
    ELSE IF YLD_IS_P4K(version) THEN "P4K"
    ELSE IF YLD_IS_B2K(version) THEN "B2K"
    ELSE IF YLD_IS_B3G(version) THEN "B3G"
    ELSE "none"

\* variant: any size but that of Generation 1 taken for Generation 2
usb_probe_proto_lax(pkt_len) ==
    IF pkt_len = USB_PKT_LEN("g1") THEN "g1" ELSE "g2"

\* the protocol usb_probe reads from the interrupt packet size
usb_probe_proto(pkt_len) ==
    IF pkt_len = USB_PKT_LEN("g1") THEN "g1"
    ELSE IF pkt_len = USB_PKT_LEN("g2") THEN "g2"
    ELSE "none"

\* the values of usb_maxpacket
PktLens == {8, 16, 32, 64}

\* usb_probe has allocated yld (no model yet) and read pkt_len, kept in i
InitDetect ==
    /\ yld = NewDev("none", 0)
    /\ urb_ctl = "idle" /\ urb_irq = "idle" /\ timer = FALSE
    /\ pc = [c \in Ctx |-> IF c = "pm" THEN "probe" ELSE "idle"]
    /\ \E n \in PktLens :
          loc = [c \in Ctx |-> IF c = "pm" THEN [NoLoc EXCEPT !.i = n] ELSE NoLoc]
    /\ env = NoEnv
    /\ out = <<>>
    /\ ret = 0
    /\ calls = 0

\* return usb_cleanup(yld, -ENODEV) before anything was allocated or started:
\* open = 0, up(usb_active_sem), stop_traffic with no URB and no timer, kfree
ProbeAbort ==
    /\ yld' = [yld EXCEPT !.open = FALSE, !.usb_pause = TRUE, !.shutdown = FALSE,
                          !.usb_active_sem = IF @ < MaxSem THEN @ + 1 ELSE @]
    /\ env' = [env EXCEPT !.gone = TRUE]
    /\ ret' = -KEY.ENODEV
    /\ Set("pm", "idle", NoLoc)
    /\ out' = <<>>
    /\ UNCHANGED <<urb_ctl, urb_irq, timer, calls>>

\* usb_probe: the protocol and the provisional model from pkt_len
ProbeSize ==
    /\ pc["pm"] = "probe"
    /\ LET proto == usb_probe_proto(loc["pm"].i)
       IN  IF proto = "none" THEN ProbeAbort
           ELSE /\ yld' = [yld EXCEPT !.model = IF proto = "g1" THEN "P1K"
                                                ELSE "P1KH"]
                /\ Set("pm", "uvi_version", NoLoc)
                /\ out' = <<>>
                /\ UNCHANGED <<urb_ctl, urb_irq, timer, env, ret, calls>>

\* update_version_init: the VERSION command sent and answered synchronously;
\* ok: submit_cmd_int_sync returned 0, d0 and d1: data[0] and data[1]
VersionReply(ok, d0, d1) ==
    /\ pc["pm"] = "uvi_version"
    /\ IF ok THEN Set("pm", "uvi_select", [NoLoc EXCEPT !.i = d0 * 256 + d1])
       ELSE Set("pm", "uvi_ret", [NoLoc EXCEPT !.rc = -1])
    /\ out' = <<>>
    /\ UNCHANGED <<yld, urb_ctl, urb_irq, timer, env, ret, calls>>

\* update_version_init: the model from the version, -ENODEV without a model
SelectModel ==
    /\ pc["pm"] = "uvi_select"
    /\ LET m == IF protocol(yld.model) = "g1" THEN select_model(loc["pm"].i)
                ELSE yld.model
       IN  /\ yld' = [yld EXCEPT !.model = m]
           /\ IF m = "none"
              THEN Set("pm", "uvi_ret", [NoLoc EXCEPT !.rc = -KEY.ENODEV])
              ELSE Set("pm", "uvi_init", NoLoc)
    /\ out' = <<>>
    /\ UNCHANGED <<urb_ctl, urb_irq, timer, env, ret, calls>>

\* update_version_init: the INIT command sent and answered synchronously
InitReply(ok) ==
    /\ pc["pm"] = "uvi_init"
    /\ Set("pm", "uvi_ret", [NoLoc EXCEPT !.rc = IF ok THEN 0 ELSE -1])
    /\ out' = <<>>
    /\ UNCHANGED <<yld, urb_ctl, urb_irq, timer, env, ret, calls>>

\* usb_probe after update_version_init: usb_cleanup(yld, -ENODEV) if it
\* failed; else, every allocation succeeding, init_state and
\* start_traffic(yld, 0)
ProbeChecked ==
    /\ pc["pm"] = "uvi_ret"
    /\ IF loc["pm"].rc # 0 THEN ProbeAbort
       ELSE /\ StartTraffic(init_state(yld), FALSE, "probe_ret", TRUE)
            /\ env' = env

\* usb_probe up to start_traffic; H and L: the bytes data[0] and data[1] the
\* device may answer the VERSION command with
Detect(H, L) ==
    \/ ProbeSize
    \/ \E ok \in BOOLEAN, d0 \in H, d1 \in L : VersionReply(ok, d0, d1)
    \/ SelectModel
    \/ \E ok \in BOOLEAN : InitReply(ok)
    \/ ProbeChecked

\* high bytes of the version: every version up to 0x07ff, which is past the
\* last range, and the versions from 0xff00 on
VersionHigh == (0..7) \cup {255}

\* the detection of the model alone
SpecVersion == InitDetect /\ [][Detect(VersionHigh, Byte)]_vars

\* version bytes that give versions in every range, next to them and far off
VersionBytes == {0, 1, 2, 5, 47, 48, 64, 144, 255}

NextDetect ==
    \/ Detect(VersionBytes, VersionBytes)
    \/ ProbeRet
    \/ Cycle({TRUE}, {"ok"}, QuietResponses(yld))

\* usb_probe and what follows it until the device is opened
SpecDetect == InitDetect /\ [][NextDetect]_vars

----------------------------------------------------------------------------
(* submit_cmd_int_sync: a startup command and its answer, with retries *)

\* int repeat = 3
SyncRepeat == 3

\* submit_cmd_sync, res being what usb_control_msg returned
submit_cmd_sync(res, len) ==
    IF res = len THEN 0
    ELSE IF res >= 0 THEN -ERR.ENODATA
    ELSE res

\* submit_int_sync, res being what usb_interrupt_msg returned, act_len the
\* length and p the content of the packet it read
submit_int_sync(res, act_len, p, len) ==
    IF res = 0
    THEN IF pkt_verify_checksum(p, len) # 0 THEN -ERR.EBADMSG
         ELSE IF len # act_len THEN -ERR.ENODATA
         ELSE 0
    ELSE res

\* one pass of the loop body: the value of ret after the echo check
sync_attempt(cp, cres, ires, act_len, ip, len) ==
    LET r1 == submit_cmd_sync(cres, len)
        r2 == IF r1 = 0 THEN submit_int_sync(ires, act_len, ip, len) ELSE r1
    IN  IF r2 = 0 /\ ip[G1.cmd] # cp[G1.cmd] THEN -ERR.ENOMSG ELSE r2

\* variant: the loop goes on as long as repeat allows
sync_goes_on_blind(r, repeat) == repeat > 0

\* while ((ret != 0) && (repeat-- > 0))
sync_goes_on(r, repeat) == r # 0 /\ repeat > 0

\* what the device may answer a startup command cp with
SyncAnswers(proto, cp) ==
    {InPacket(proto, cp[G1.cmd], 1, 0, 0),
     InPacket(proto, CMD.STATE_BAD_PKT, 0, 0, 0),
     Corrupt(InPacket(proto, cp[G1.cmd], 1, 0, 0), USB_PKT_LEN(proto))}

\* update_version_init calls submit_cmd_int_sync with the VERSION or the INIT
\* command in ctl_data: repeat (kept in i) is 3 and ret (kept in rc) is -1
InitSync ==
    /\ \E m \in {"P1K", "P1KH"}, init \in BOOLEAN :
          yld = [NewDev(m, 0) EXCEPT
                   !.ctl_data = IF init THEN init_packet(protocol(m), @)
                                ELSE version_packet(protocol(m), @)]
    /\ urb_ctl = "idle" /\ urb_irq = "idle" /\ timer = FALSE
    /\ pc = [c \in Ctx |-> IF c = "pm" THEN "sync" ELSE "idle"]
    /\ loc = [c \in Ctx |-> IF c = "pm"
                            THEN [NoLoc EXCEPT !.i = SyncRepeat, !.rc = -1]
                            ELSE NoLoc]
    /\ env = NoEnv
    /\ out = <<>>
    /\ ret = -1
    /\ calls = 0

\* one attempt: the control write, the interrupt read, the echo check
SyncAttempt(cres, ires, act_len, ip) ==
    /\ pc["pm"] = "sync"
    /\ sync_goes_on(loc["pm"].rc, loc["pm"].i)
    /\ LET len == USB_PKT_LEN(protocol(yld.model))
       IN  loc' = [loc EXCEPT
                     !["pm"].i = @ - 1,
                     !["pm"].rc = sync_attempt(yld.ctl_data, cres, ires,
                                               act_len, ip, len)]
    /\ calls' = calls + 1
    /\ out' = <<Packet(yld.ctl_data, USB_PKT_LEN(protocol(yld.model)))>>
    /\ UNCHANGED <<yld, urb_ctl, urb_irq, timer, pc, env, ret>>

\* the loop has ended: return ret
SyncReturn ==
    /\ pc["pm"] = "sync"
    /\ ~sync_goes_on(loc["pm"].rc, loc["pm"].i)
    /\ ret' = loc["pm"].rc
    /\ pc' = [pc EXCEPT !["pm"] = "idle"]
    /\ out' = <<>>
    /\ UNCHANGED <<yld, urb_ctl, urb_irq, timer, loc, env, calls>>

NextSync ==
    \/ \E cres \in {USB_PKT_LEN(protocol(yld.model)), 0, -ERR.EPIPE,
                     -ERR.ETIMEDOUT},
          ires \in {0, -ERR.ETIMEDOUT},
          short \in BOOLEAN,
          ip \in SyncAnswers(protocol(yld.model), yld.ctl_data) :
            SyncAttempt(cres, ires,
                        USB_PKT_LEN(protocol(yld.model)) - (IF short THEN 1 ELSE 0),
                        ip)
    \/ SyncReturn

SpecSync == InitSync /\ [][NextSync]_vars

\* One open session.  input_open has found the device at rest, has run
\* init_state, set open and is inside start_traffic(yld, 1): the timer is armed
\* (G1) or the interrupt read is submitted (G2), and
\* poke_update_from_userspace is about to run.  Submissions may fail,
\* transfers may end with an error or with -ESHUTDOWN, keys are pressed.
InitOpen ==
    /\ \E m \in CycleModels, g \in Garbage :
          yld = [init_state(NewDev(m, g)) EXCEPT
                    !.open = TRUE, !.pm_mutex = TRUE,
                    !.timer_expired = protocol(m) = "g2"]
    /\ urb_ctl = "idle"
    /\ urb_irq = IF protocol(yld.model) = "g2" THEN "inflight" ELSE "idle"
    /\ timer = (protocol(yld.model) = "g1")
    /\ pc = [c \in Ctx |-> IF c = "pm" THEN "st_poke" ELSE "idle"]
    /\ loc = [c \in Ctx |-> IF c = "pm" THEN [NoLoc EXCEPT !.retpc = "open_ret"]
                            ELSE NoLoc]
    /\ env = [NoEnv EXCEPT !.registered = TRUE, !.pmcalls = 1]
    /\ out = <<>>
    /\ ret = 0
    /\ calls = 0

NextCycle == Cycle(BOOLEAN, {"ok", "err", "ESHUTDOWN"}, Responses(yld)) \/ OpenRet

SpecCycle == InitOpen /\ [][NextCycle]_vars

\* One open session in which the ringtone attribute is written: every
\* submission is accepted, every transfer completes, nobody touches the keys.
NextRing == Cycle({TRUE}, {"ok"}, QuietResponses(yld)) \/ OpenRet \/ Ringtone

SpecRing == InitOpen /\ [][NextRing]_vars

\* The same session in which the kmalloc of set_ringnotes may fail.
NextNoMem == NextRing \/ \E buf \in RingInputs : RtWriteNoMem(buf)

SpecNoMem == InitOpen /\ [][NextNoMem]_vars

\* One open session in which usb_submit_urb may fail: every transfer that
\* was accepted completes without error, nobody touches the keys.
NextFail == Cycle(BOOLEAN, {"ok"}, QuietResponses(yld)) \/ OpenRet

SpecFail == InitOpen /\ [][NextFail]_vars

\* well-formed interrupt packets that say "no key" or "handset lifted",
\* whatever the request was
AnyResponses(y) ==
    {InPacket(protocol(y.model), cmd, 0, 0, 0) :
        cmd \in {CMD.KEYPRESS, CMD.HOOKPRESS}}

\* One open session in which the device answers with any command.
NextEcho == Cycle({TRUE}, {"ok"}, AnyResponses(yld)) \/ OpenRet

SpecEcho == InitOpen /\ [][NextEcho]_vars

----------------------------------------------------------------------------
(* Claims about the planner and the packets *)

Supported(m) == {i \in 0..(StatusSize - 1) : fcheck(m, i)}

\* C2: with master left alone, repeated calls of prepare_update_cmd return 0
\* after a bounded number of calls that returned non-zero, and once 0 has been
\* returned copy equals master at every offset the model supports.
C2_DrainTerminates ==
    /\ calls <= DrainBound
    /\ ret = 0 => \A i \in Supported(yld.model) : yld.copy[i] = yld.master[i]

\* a drain of several packets, ring-note chunks among them, has ended
C2_Witness ==
    /\ ret = 0
    /\ calls >= 4
    /\ yld.notes_len > USB_PKT_DATA_LEN(protocol(yld.model))

UpdatePackets == {out[k][2] : k \in {j \in 1..Len(out) :
                     out[j][1] = "pkt" /\ out[j][2][G1.cmd] \notin ScanCmds \ {CMD.SCANCODE}}}

PacketsSupported ==
    \A p \in UpdatePackets : Covered(yld.model, p) \subseteq Supported(yld.model)

\* C3: no update packet covers an offset the model does not support; at such
\* an offset copy changes only by taking the value of master.
C3_UnsupportedAbsorbed ==
    [][/\ PacketsSupported'
       /\ \A i \in (0..(StatusSize - 1)) \ Supported(yld.model) :
             yld'.copy[i] # yld.copy[i] => yld'.copy[i] = yld.master[i]]_vars

\* P4K: the LED difference was absorbed while a packet for another field went out
C3_Witness ==
    /\ yld.model = "P4K"
    /\ yld.master[OFS.led] = 1 /\ yld.copy[OFS.led] = 1
    /\ UpdatePackets # {}

PacketSum(p, len) == SumBytes(p, 0, len) % 256

\* C8: every control packet the driver builds - update packets, scan requests,
\* the VERSION and INIT probes - sums to 0 modulo 256 over its whole length
\* (16 bytes G1, 8 bytes G2), whatever was left in the buffer.
C8_PacketsSumToZero ==
    \A k \in 1..Len(out) :
        out[k][1] = "pkt" =>
            /\ out[k][3] = USB_PKT_LEN(protocol(yld.model))
            /\ PacketSum(out[k][2], out[k][3]) = 0

\* an update packet with bytes nobody initialised behind its payload
C8_Witness ==
    /\ out # <<>>
    /\ out[1][1] = "pkt"
    /\ protocol(yld.model) = "g1"
    /\ out[1][2][G1.cmd] = CMD.LED
    /\ out[1][2][G1.data + 3] = 165


----------------------------------------------------------------------------
(* Claims about the key events *)

\* the keys a cascaded key code stands for: low byte, then a non-zero high byte
KeysOf(code) ==
    IF code < 0 THEN <<>>
    ELSE IF code \div 256 = 0 THEN <<code % 256>>
    ELSE <<code % 256, code \div 256>>

KeyEvents(code, value) ==
    [k \in 1..Len(KeysOf(code)) |-> <<"key", KeysOf(code)[k], value>>]

\* C7: every report_key call first releases the key(s) of the previous
\* key_code (low byte, then the high byte if non-zero), then presses the key(s)
\* of the new code; a negative new code presses nothing.  So Enter followed by
\* "no key" gives key-down(Enter), then key-up(Enter) and no further key-down.
C7_ReleaseThenPress ==
    [][out' = KeyEvents(yld.key_code, 0) \o KeyEvents(yld'.key_code, 1) \o
              <<input_sync>>]_vars

\* Enter was held and a "no key" scancode has just released it
C7_Witness ==
    /\ yld.key_code = -KEY.EINVAL
    /\ out = <<input_report_key(KEY.ENTER, 0), input_sync>>

----------------------------------------------------------------------------
(* Claims about the request cycle of an open session *)

IsG1 == protocol(yld.model) = "g1"

\* the calls of usb_submit_urb(urb_ctl) among the events evs
CtlSubmits(evs) ==
    {i \in 1..Len(evs) : evs[i][1] = "submit" /\ evs[i][2] = "ctl"}

\* timer_callback_g1 runs its locked section in this step
TimerStep == IsG1 /\ pc["tmr"] = "idle" /\ pc'["tmr"] = "S"

\* C1: on a Generation-1 device, whatever the order in which the timer, the
\* two completion handlers and poke_update_from_userspace run during a
\* session, usb_submit_urb(urb_ctl) is never called while a control transfer or
\* an interrupt read is outstanding; and a timer expiry that finds scan_active
\* or update_active set changes nothing but timer_expired (which it sets) and
\* goes on to re-arm the timer without submitting anything.
C1_OneRequestAtATime ==
    [][IsG1 =>
         /\ \A i \in CtlSubmits(out') : ~out'[i][3]
         /\ (TimerStep /\ (yld.scan_active \/ yld.update_active)) =>
               /\ yld' = [yld EXCEPT !.timer_expired = TRUE]
               /\ loc'["tmr"].todo = "timer"
               /\ out' = <<>>
         /\ (pc["tmr"] = "X" /\ pc'["tmr"] = "idle" /\ loc["tmr"].todo = "timer") =>
               /\ out' = <<>>
               /\ UNCHANGED <<yld, urb_ctl, urb_irq>>
      ]_vars

\* the timer has expired while an update was in flight and has only noted it
C1_Witness ==
    /\ IsG1 /\ yld.open
    /\ pc["tmr"] = "S" /\ loc["tmr"].todo = "timer"
    /\ urb_ctl = "inflight" /\ yld.update_active /\ ~yld.scan_active
    /\ yld.timer_expired

\* perform_single_update_g1 runs its locked section in this step (the
\* completion of a value write or of an interrupt read)
PerformStep ==
    /\ IsG1 /\ pc["cb"] = "idle" /\ pc'["cb"] = "S"
    /\ loc'["cb"].todo \in {"upd", "perf_scan", "perf_none"}

\* the timer has expired unserved on an open device that is not paused
Debt == yld.timer_expired /\ yld.open /\ ~yld.usb_pause

\* C5 as the specification states it: with a timer expiry noted, what
\* perform_single_update_g1 decides to submit when the transfer in flight has
\* completed is a scan request, and it clears timer_expired.
C5_ScanComesNext ==
    [][(PerformStep /\ Debt) =>
          loc'["cb"].todo = "perf_scan" /\ ~yld'.timer_expired]_vars

\* C5 with the exception the code makes (dont_break): with a timer expiry
\* noted, perform_single_update_g1 decides on a scan request and clears
\* timer_expired, unless the planner's cursor is on a ring-note upload under
\* way or on a key number whose scancode is still to be fetched; then that
\* RING_NOTE or SCANCODE packet goes first and timer_expired stays set.
C5_ScanComesNextUnlessDontBreak ==
    [][(PerformStep /\ Debt) =>
          \/ loc'["cb"].todo = "perf_scan" /\ ~yld'.timer_expired
          \/ /\ loc'["cb"].todo = "upd" /\ yld'.timer_expired
             /\ yld'.ctl_data[G1.cmd] \in {CMD.RING_NOTE, CMD.SCANCODE}]_vars

\* a completion handler has found the timer's note and decided on the scan
C5_Witness ==
    /\ IsG1 /\ yld.open /\ ~yld.usb_pause
    /\ pc["cb"] = "S" /\ loc["cb"].todo = "perf_scan"
    /\ yld.scan_active /\ ~yld.timer_expired

\* the packet the interrupt handler is working on fails the checksum test
CorruptPkt(l) ==
    /\ l.urb = "irq" /\ DOMAIN l.pkt # {}
    /\ pkt_verify_checksum(l.pkt, USB_PKT_LEN(protocol(yld.model))) # 0

\* C6: an interrupt packet whose bytes do not sum to 0 changes none of master,
\* hookstate, pstn_ring and key_code and reports nothing to the input layer,
\* and the handler goes on as for any completed read: on a G1 device with what
\* perform_single_update_g1 decides on the unchanged state (the update or the
\* scan that is due), on a G2 device with the next interrupt read.
C6_CorruptPacketDropped ==
    [][(pc["cb"] = "idle" /\ pc'["cb"] = "S" /\ CorruptPkt(loc'["cb"])) =>
          /\ yld'.master = yld.master /\ yld'.hookstate = yld.hookstate
          /\ yld'.pstn_ring = yld.pstn_ring /\ yld'.key_code = yld.key_code
          /\ out' = <<>>
          /\ IF IsG1
             THEN /\ yld' = perform_g1_locked(yld).y
                  /\ loc'["cb"].todo = perform_g1_locked(yld).todo
             ELSE /\ yld' = yld
                  /\ loc'["cb"].todo = "irq"]_vars

\* a corrupted answer has come in and the next request is about to go out
C6_Witness ==
    /\ IsG1 /\ pc["cb"] = "X" /\ CorruptPkt(loc["cb"])
    /\ loc["cb"].todo \in {"upd", "perf_scan"}

----------------------------------------------------------------------------
(* Claims about the life of the device *)

\* no transfer is outstanding and no handler of the cycle is running
AtRest == ~Busy /\ \A c \in {"tmr", "cb", "usr"} : pc[c] = "idle"

\* C4, as far as a finite run decides it: a sysfs write that arrives at a
\* registered, not suspended device on which nothing is outstanding, no handler
\* is running and no timer is pending, and that leaves the written field of
\* master different from copy, makes its poke_update_from_userspace submit a
\* request (otherwise nothing is left that could ever send the new value).
C4_WriteAtRestIsSent ==
    [][(/\ env'.writes > env.writes
        /\ AtRest /\ ~timer /\ pc["pm"] = "idle" /\ ~env.suspended
        /\ yld'.master[OFS.led] # yld'.copy[OFS.led]) =>
          pc'["usr"] = "S"]_vars

\* C9: when stop_traffic has returned (to usb_suspend, or to usb_cleanup which
\* then frees the URBs, the buffers and yld) no URB is outstanding and the
\* timer is not pending.
C9_QuietWhenStopped ==
    pc["pm"] \in {"suspend_ret", "cleanup_free"} => ~Busy /\ ~timer

\* C10: input_open goes on to init_state only when no transfer is outstanding
\* and no handler of the cycle is running, and when its polls of
\* usb_active_sem are used up it returns without changing the session state.
C10_ReinitOnlyAtRest ==
    [][/\ (pc["pm"] = "open_wait" /\ pc'["pm"] = "open_init") => AtRest
       /\ (pc["pm"] = "open_wait" /\ pc'["pm"] = "idle") => yld' = yld]_vars

----------------------------------------------------------------------------
(* Claims about the ringtone upload *)

\* store_ringtone has seen the cycle stopped and has not yet cleared usb_pause
RtWindow == pc["usr"] \in {"rt_write", "rt_unpause"}

\* what a run of prepare_update_cmd works on
PlannerState(y) == <<y.ctl_data, y.copy, y.stat_ix, y.notes_ix>>

\* the calls of usb_submit_urb among the events evs
Submits(evs) == {i \in 1..Len(evs) : evs[i][1] = "submit"}

\* C11 as the specification states it: store_ringtone replaces the ring-note
\* buffer only while scan_active and update_active are both clear, and from
\* the moment it has seen them clear until it clears usb_pause no handler
\* changes what prepare_update_cmd works on and no URB is submitted.
C11_NoTrafficWhilePaused ==
    [][/\ (pc["usr"] = "rt_write" /\ pc'["usr"] = "rt_unpause") => idle(yld)
       /\ (RtWindow /\ pc'["usr"] = pc["usr"]) =>
             /\ PlannerState(yld') = PlannerState(yld)
             /\ Submits(out') = {}]_vars

\* C11 with the interrupt read of a Generation-2 device left out: in that
\* window no handler changes what prepare_update_cmd works on and no control
\* URB is submitted; the only submission is urb_irq_callback re-arming the
\* interrupt read on a Generation-2 device.
C11_NoControlTrafficWhilePaused ==
    [][/\ (pc["usr"] = "rt_write" /\ pc'["usr"] = "rt_unpause") => idle(yld)
       /\ (RtWindow /\ pc'["usr"] = pc["usr"]) =>
             /\ PlannerState(yld') = PlannerState(yld)
             /\ CtlSubmits(out') = {}
             /\ Submits(out') # {} => ~IsG1]_vars

\* store_ringtone had to wait for the cycle to stop and has then put a buffer
\* of more than one packet in place
C11_Witness ==
    /\ pc["usr"] = "rt_unpause"
    /\ yld.usb_pause /\ yld.open
    /\ yld.notes_len > USB_PKT_DATA_LEN(protocol(yld.model))
    /\ yld.ring_notes[1] = NoteBuf(MaxNotesLen)[2]

----------------------------------------------------------------------------
(* Claims about failed submissions *)

\* the session is open and running, nothing is outstanding and no handler or
\* caller is at work
SessionAtRest ==
    /\ AtRest /\ pc["pm"] = "idle"
    /\ yld.open /\ ~yld.usb_pause /\ ~yld.shutdown

\* the next expiry of the scan timer (G1) would submit a scan request
TimerWouldSubmit ==
    IsG1 /\ timer /\ timer_g1_locked(yld).todo = "timer_scan"

\* a sysfs write that switches the LED, followed by its
\* poke_update_from_userspace, would submit a request
PokeWouldSubmit ==
    \E chr \in {" ", "x"} : poke_locked(setChar(yld, 38, chr)).todo # "none"

\* C12: whenever the open session has come to rest - after a failed
\* submission in particular - the next timer expiry or the next poke after a
\* sysfs write submits a request again.
C12_NotStuckAfterFailure ==
    SessionAtRest => TimerWouldSubmit \/ PokeWouldSubmit

----------------------------------------------------------------------------
(* Claims about the Generation-2 cycle *)

IsG2 == protocol(yld.model) = "g2"

\* perform_single_update_g2 runs its locked section in this step
PerformG2Step == IsG2 /\ pc["tmr"] = "idle" /\ pc'["tmr"] # "idle"

\* C13: on a Generation-2 device that is not paused, a poke that arrives
\* while update_active is set submits nothing; usb_submit_urb(urb_ctl) is only
\* called while no control transfer is outstanding; perform_single_update_g2
\* goes on with the next command as long as prepare_update_cmd finds one and
\* ends the cycle (update_active = 0, timer_expired = 1) only when it finds
\* none; and a poke starts a cycle only after that.
C13_OneCycleAtATime ==
    [][(IsG2 /\ ~yld.usb_pause) =>
         /\ \A c \in {"usr", "pm"} :
               (pc[c] # "S" /\ pc'[c] = "S" /\ loc'[c].todo = "upd") =>
                  ~yld.update_active /\ yld.timer_expired /\ urb_ctl = "idle"
         /\ \A i \in CtlSubmits(out') : urb_ctl = "idle"
         /\ PerformG2Step =>
               /\ loc'["tmr"].todo = "upd" <=> prepare_update_cmd(yld).ret # 0
               /\ yld'.update_active <=> prepare_update_cmd(yld).ret # 0
               /\ yld'.timer_expired <=> prepare_update_cmd(yld).ret = 0
      ]_vars

\* a sysfs write has arrived while a command of the running cycle was
\* outstanding, and its poke has left the new difference to that cycle
C13_Witness ==
    /\ IsG2 /\ ~yld.usb_pause
    /\ env.writes > 0 /\ pc["usr"] = "idle"
    /\ yld.update_active /\ urb_ctl = "inflight"
    /\ yld.master[OFS.led] # yld.copy[OFS.led]
    /\ yld.stat_ix > OFS.led


\* urb_irq_callback is at work on a Generation-2 device
InIrqG2 == IsG2 /\ pc["cb"] # "idle" /\ loc["cb"].urb = "irq"

----------------------------------------------------------------------------
(* Claims about the order and the number of update packets *)

\* the supported offsets at which copy differs from master
Diff(y) == {i \in Supported(y.model) : y.copy[i] # y.master[i]}

LcdCells == {i \in 0..(StatusSize - 1) : InLcd(i)}

\* a call of prepare_update_cmd returns in this step
PlanReturns == calls' # calls \/ ret' # ret

\* evs is one update packet with command cmd
IsCmdPacket(evs, cmd) ==
    Len(evs) = 1 /\ evs[1][1] = "pkt" /\ evs[1][2][G1.cmd] = cmd

\* nothing has been sent yet, the cursor is at 0, and copy differs from master
\* at the LED and at one LCD byte only
FreshLedAndLcd ==
    /\ calls = 0 /\ yld.stat_ix = 0
    /\ \E c \in LcdCells : Diff(yld) = {c, OFS.led}

Carries(m, p, o, v) ==
    LET d0 == p[DataAt(m)]
    IN  CASE o = OFS.ringvol  -> p[G1.cmd] = CMD.RING_VOLUME /\ d0 = v
          [] o = OFS.dialtone -> p[G1.cmd] = CMD.DIALTONE /\ d0 = v
          [] o = OFS.backlight -> p[G1.cmd] = CMD.LCD_BACKLIGHT /\ d0 = v
          [] o = OFS.speaker -> p[G1.cmd] = CMD.SPEAKER /\ d0 = v
          [] o = OFS.pstn -> p[G1.cmd] = CMD.PSTN_SWITCH /\ d0 = v
          [] o = OFS.ringtone ->
               IF m \in {"P1K", "P1KH"}
               THEN p[G1.cmd] = CMD.RINGTONE /\ (d0 # 0 <=> v # 0)
               ELSE p[G1.cmd] = CMD.B2K_RING /\ d0 = v
          [] o = OFS.led ->
               /\ p[G1.cmd] = CMD.LED
               /\ IF m \in {"B2K", "B3G"} THEN d0 # 0 <=> v # 0
                  ELSE d0 = 0 <=> v # 0
          [] OTHER -> FALSE

\* the field that was written, and a packet for it carrying its value
Written == loc["usr"].i

PacketForWritten(evs) ==
    /\ Len(evs) = 1 /\ evs[1][1] = "pkt"
    /\ Covered(yld.model, evs[1][2]) = {Written}
    /\ Carries(yld.model, evs[1][2], Written, yld.master[Written])

\* no packet of evs covers the field that was written
NoPacketForWritten(evs) ==
    \A k \in 1..Len(evs) :
        evs[k][1] = "pkt" => Written \notin Covered(yld.model, evs[k][2])

----------------------------------------------------------------------------
(* Claims about set_ringnotes *)

\* the note data of the upload: the buffer without its volume byte
NoteData == Tail(loc["usr"].pkt)

\* the note data ends with a (0,0) pair
EndsWithEos ==
    NoteData[Len(NoteData) - 1] = 0 /\ NoteData[Len(NoteData)] = 0

\* the data is stored whole, with one terminator at its end
StoredWhole(y) ==
    /\ y.ring_notes = IF EndsWithEos THEN NoteData ELSE NoteData \o <<0, 0>>
    /\ y.notes_len = Len(y.ring_notes)

----------------------------------------------------------------------------
(* Claims about setChar *)

\* C18: setChar(el, c) with el below the size of lcdMap and c neither tab nor
\* newline makes the cell yld->lcdMap[el] read back as c; with c tab or
\* newline the cell keeps its character and no byte of master changes; with
\* el at or beyond the size of lcdMap it returns -EINVAL and changes nothing.
C18_SetCharReadsBack ==
    [][calls' = calls + 1 =>
         LET el == loc'["usr"].i
             c  == loc'["usr"].pkt[1]
         IN  /\ (el < LcdMapSize /\ c \notin {"\t", "\n"}) =>
                   yld'.lcdMap[el] = c /\ ret' = 0
             /\ (el < LcdMapSize /\ c \in {"\t", "\n"}) =>
                   /\ yld'.lcdMap = yld.lcdMap
                   /\ yld'.master = yld.master
                   /\ ret' = 0
             /\ el >= LcdMapSize => ret' = -KEY.EINVAL /\ yld' = yld]_vars

\* a tab has been written to a cell that was showing "8" and still shows it
C18_Witness ==
    /\ calls = 2 /\ ret = 0
    /\ loc["usr"].i < LcdMapSize /\ loc["usr"].pkt = <<"\t">>
    /\ yld.lcdMap[loc["usr"].i] = "8"

----------------------------------------------------------------------------
(* Claims about usb_probe *)

\* the Generation-1 models whose range holds v
InRange(v) ==
    {m \in {"P1K", "P4K", "B2K", "B3G"} :
        CASE m = "P1K" -> v >= 256 /\ v <= 511
          [] m = "P4K" -> v >= 560 /\ v <= 767
          [] m = "B2K" -> (v >= 1312 /\ v <= 1343) \/ (v >= 1392 /\ v <= 1423)
          [] m = "B3G" -> v >= 1344 /\ v <= 1391}

\* C19: on a Generation-1 device update_version_init selects P1K, P4K, B2K
\* or B3G exactly when the 16-bit version lies in the range of that model;
\* no version lies in two ranges; a version in no range selects no model;
\* on a Generation-2 device the model stays P1KH whatever the version.
C19_ModelFromVersion ==
    [][(pc["pm"] = "uvi_select" /\ pc'["pm"] # "uvi_select") =>
         LET v == loc["pm"].i
         IN  IF yld.model = "P1KH" THEN yld'.model = "P1KH"
             ELSE /\ Cardinality(InRange(v)) <= 1
                  /\ \A m \in {"P1K", "P4K", "B2K", "B3G"} :
                        yld'.model = m <=> m \in InRange(v)
                  /\ InRange(v) = {} <=> yld'.model = "none"]_vars

\* a version of the B3G range, which lies between the two ranges of B2K, has
\* selected B3G and usb_probe has gone on to start traffic
C19_Witness ==
    /\ yld.model = "B3G" /\ pc["pm"] = "st_poke"
    /\ ~env.gone /\ ~env.registered

\* usb_probe has ended in usb_cleanup before traffic was started
Aborted == env.gone /\ ~env.registered

\* C20: a packet size that is neither 16 nor 8, a Generation-1 version in no
\* range, and a failed VERSION or INIT probe each end usb_probe in
\* usb_cleanup with -ENODEV; up to then and ever after no URB is submitted,
\* none is in flight and the timer is not armed.
C20_AbortWithoutTraffic ==
    [][/\ (pc["pm"] = "probe" /\ loc["pm"].i \notin {16, 8}) =>
             Aborted' /\ ret' = -KEY.ENODEV
       /\ (pc["pm"] = "uvi_select" /\ yld.model # "P1KH"
            /\ InRange(loc["pm"].i) = {}) => loc'["pm"].rc # 0
       /\ (pc["pm"] = "uvi_ret" /\ loc["pm"].rc # 0) =>
             Aborted' /\ ret' = -KEY.ENODEV
       /\ (pc["pm"] \in {"probe", "uvi_version", "uvi_select", "uvi_init",
                          "uvi_ret"} \/ Aborted) =>
             /\ Submits(out') = {}
             /\ urb_ctl' = "idle" /\ urb_irq' = "idle" /\ ~timer'
      ]_vars

\* the VERSION probe of a device with 16-byte packets has named no model and
\* usb_probe has ended with -ENODEV
C20_Witness ==
    /\ Aborted /\ ret = -KEY.ENODEV
    /\ yld.model = "none" /\ yld.usb_active_sem = 1
    /\ urb_ctl = "idle" /\ urb_irq = "idle" /\ ~timer

----------------------------------------------------------------------------
(* Claims about the synchronous startup commands *)

\* C21: submit_cmd_int_sync makes at most 3 attempts, each of which uses up
\* one of the 3 repeats (so the loop ends); it makes another attempt only
\* after one that failed; it returns 0 after an attempt that succeeded, and
\* after 3 failed attempts the error of the last one.
C21_ThreeAttempts ==
    [][/\ (pc["pm"] = "sync" /\ calls' = calls + 1) =>
             /\ loc["pm"].rc # 0
             /\ calls' <= 3
             /\ loc'["pm"].i = loc["pm"].i - 1 /\ loc'["pm"].i >= 0
       /\ (pc["pm"] = "sync" /\ pc'["pm"] = "idle") =>
             /\ calls >= 1
             /\ ret' = loc["pm"].rc
             /\ ret' # 0 => calls = 3
       /\ (pc["pm"] = "sync" /\ loc["pm"].rc = 0) => pc'["pm"] = "idle"
       /\ (pc["pm"] = "sync" /\ calls = 3) => pc'["pm"] = "idle"]_vars

\* the command went through at the third attempt, after two that failed
C21_Witness ==
    /\ pc["pm"] = "idle" /\ calls = 3 /\ ret = 0 /\ loc["pm"].i = 0

----------------------------------------------------------------------------
(* Claims about answers that do not match the request *)

\* l holds an interrupt packet with a good checksum whose command is not
\* the command of the request in ctl_data
Mismatched(l) ==
    /\ l.urb = "irq" /\ DOMAIN l.pkt # {}
    /\ pkt_verify_checksum(l.pkt, USB_PKT_LEN(protocol(yld.model))) = 0
    /\ l.pkt[G1.cmd] # yld.ctl_data[G1.cmd]

\* C22: on a Generation-1 device an answer whose command is not that of the
\* request just sent changes none of master, hookstate, pstn_ring and
\* key_code and reports nothing to the input layer, and the handler goes on
\* with the request perform_single_update_g1 decides on.
C22_MismatchDropped ==
    [][(IsG1 /\ pc["cb"] = "idle" /\ pc'["cb"] = "S" /\ Mismatched(loc'["cb"])) =>
          /\ yld'.master = yld.master /\ yld'.hookstate = yld.hookstate
          /\ yld'.pstn_ring = yld.pstn_ring /\ yld'.key_code = yld.key_code
          /\ out' = <<>>
          /\ loc'["cb"].todo = perform_g1_locked(yld).todo]_vars

----------------------------------------------------------------------------
(* Claims about a ringtone upload that fails *)

\* what a ringtone upload sets
RingState(y) ==
    <<y.ring_notes, y.notes_len, y.master[OFS.ringvol], y.master[OFS.ringnote_mod]>>

\* C23: a store_ringtone that has not seen the cycle idle in its 10 polls
\* leaves ring_notes, notes_len, master.ringvol and master.ringnote_mod as
\* they were while it waits and when it gives up, clears usb_pause and
\* returns a negative value.
C23_TimeoutReported ==
    [][/\ pc["usr"] \in {"rt_poll", "rt_fail"} => RingState(yld') = RingState(yld)
       /\ (pc["usr"] = "rt_fail" /\ pc'["usr"] = "idle") =>
             ~yld'.usb_pause /\ ret' < 0]_vars

\* the write of store_ringtone in which the allocation of the new buffer
\* failed: the old buffer is gone and there is no new one
NoMemWrite ==
    /\ pc["usr"] = "rt_write" /\ pc'["usr"] = "rt_unpause"
    /\ yld.ring_notes # <<>> /\ yld'.ring_notes = <<>>

\* C24: when the allocation of the new ring-note buffer fails, master.ringvol,
\* master.ringnote_mod, ring_notes and notes_len stay as they were, and the
\* store_ringtone that met the failure returns an error.
C24_NoMemPropagated ==
    [][/\ NoMemWrite => RingState(yld') = RingState(yld)
       /\ (pc["usr"] = "rt_ret" /\ pc'["usr"] = "idle" /\ yld.ring_notes = <<>>)
             => ret' < 0]_vars

----------------------------------------------------------------------------
(* Claims about the 7-segment translation table *)

\* context usr reads an entry of map_seg7 in this step: a setChar of
\* store_line or a byte of the memcpy of show_map
ReadsMap ==
    /\ pc["usr"] \in {"sl_char", "shm_copy"}
    /\ loc'["usr"] # loc["usr"]
    /\ pc'["usr"] = pc["usr"]

\* show_map has filled buf
ShowMapFilled ==
    /\ pc["usr"] = "shm_copy"
    /\ \A c \in MapChars : loc["usr"].pkt[c] # -1

\* C25: store_map is serialised with setChar and show_map: no entry is read
\* while a store_map is between the first and the last entry it writes, the
\* table read is one that was stored whole, and what show_map returns is one
\* of the tables stored.
C25_MapSerialized ==
    [][/\ ReadsMap => pc["map"] = "idle" /\ yld.map_seg7 \in MapTables
       /\ ShowMapFilled' =>
             \E t \in MapTables : \A c \in MapChars : loc'["usr"].pkt[c] = t[c]]_vars

----------------------------------------------------------------------------
(* Claims about who writes the copy image *)

\* urb_irq_callback decodes a packet in this step
IrqDecodes ==
    /\ urb_irq = "inflight" /\ urb_irq' = "idle"
    /\ pc["cb"] = "idle" /\ pc'["cb"] = "S"
    /\ DOMAIN loc'["cb"].pkt # {}

\* the device as the decoding of this step leaves it
Decoded == irq_decode(yld, loc'["cb"].pkt).y

\* the device a planner run of this step starts from: after the decoding of
\* urb_irq_callback, after the write to master of a sysfs writer
PlannerFrom == IF IrqDecodes THEN Decoded ELSE [yld EXCEPT !.master = yld'.master]

\* the offsets at which copy changes in this step
CopyWritten == {i \in 0..(StatusSize - 1) : yld'.copy[i] # yld.copy[i]}

----------------------------------------------------------------------------
(* Claims about the order in which the planner serves the fields *)

\* a call of prepare_update_cmd stages a packet in this step
PlanEmits == calls' = calls + 1

\* the offsets the packet staged in this step covers
Served == Covered(yld.model, out'[1][2])

\* the offsets from a on, up to b (not included), going round
Round(a, b) ==
    IF a <= b THEN a..(b - 1) ELSE (a..(StatusSize - 1)) \cup (0..(b - 1))

\* the supported offsets that differ and have something to send
Pending(y) ==
    {i \in Diff(y) : i = OFS.ringnote_mod =>
                        y.ring_notes # <<>> /\ y.notes_ix < y.notes_len}

\* a further chunk of a ring-note upload will follow the packet of this step
MoreNotes == yld'.ctl_data[G1.cmd] = CMD.RING_NOTE /\ yld'.notes_ix # 0

\* C27: the packet staged is for the first pending offset from the cursor on,
\* going round; after it the cursor is past the offsets it covers, unless more
\* chunks of a ring-note upload follow, when the cursor stays and notes_ix has
\* grown; and when an offset that changed again at once after it was served is
\* served a second time, no other offset is pending any more, but for the LED
\* the planner itself has marked for another packet since (PSTN_SWITCH).
C27_RoundRobin ==
    [][PlanEmits =>
         \E k \in Served :
            /\ k \in Pending(yld)
            /\ Round(yld.stat_ix, k) \cap Pending(yld) = {}
            /\ IF MoreNotes
               THEN /\ yld'.stat_ix = k
                    /\ yld.notes_ix < yld'.notes_ix
                    /\ yld'.notes_ix < yld.notes_len
               ELSE /\ \A i \in Served : InLcd(i) => i >= k
                    /\ yld'.stat_ix =
                          NextIx(CHOOSE i \in Served : \A j \in Served : j <= i)
            /\ (env.writes > 0 /\ loc["usr"].i \in Served /\ yld.notes_ix = 0)
                  => \A i \in Pending(yld) \ Served :
                        /\ i = OFS.led
                        /\ yld.copy[i] = Not8(yld.master[i])]_vars

\* an offset that was served has changed again and waits, the cursor past
\* it, while the packet for another offset is staged
C27_Witness ==
    /\ env.writes > 0
    /\ loc["usr"].i \in Pending(yld)
    /\ Len(out) = 1 /\ loc["usr"].i \notin Covered(yld.model, out[1][2])
    /\ out[1][2][G1.cmd] # CMD.RING_NOTE

----------------------------------------------------------------------------
(* Claims about the packets of a ring-note upload *)

\* the packet staged in this step, when PlanEmits
Staged == out'[1][2]

\* the bytes of the upload not sent yet, and the size of the next chunk
NotesLeft == yld.notes_len - yld.notes_ix

ChunkLen ==
    IF NotesLeft > USB_PKT_DATA_LEN(protocol(yld.model))
    THEN USB_PKT_DATA_LEN(protocol(yld.model)) ELSE NotesLeft

\* C28: every RING_NOTE packet carries the next bytes of ring_notes, at most
\* 11 (Generation 1) or 6 (Generation 2) of them, starting at notes_ix; on
\* Generation 1 its offset field is notes_ix, a multiple of 11 that starts at
\* 0, and its size field the number of bytes.  While bytes remain after it,
\* notes_ix has moved on by the chunk, copy differs from master at
\* ringnote_mod, the cursor is on ringnote_mod and the next packet staged is a
\* RING_NOTE packet again; after the last chunk notes_ix is 0 and copy equals
\* master at ringnote_mod.
C28_Chunks ==
    [][/\ (PlanEmits /\ yld.notes_ix # 0) => Staged[G1.cmd] = CMD.RING_NOTE
       /\ (PlanEmits /\ Staged[G1.cmd] = CMD.RING_NOTE) =>
             /\ ChunkLen >= 1
             /\ \A i \in 0..(ChunkLen - 1) :
                   Staged[DataAt(yld.model) + i] = yld.ring_notes[yld.notes_ix + i + 1]
             /\ protocol(yld.model) = "g1" =>
                   /\ Staged[G1.offset] * 256 + Staged[G1.offset + 1] = yld.notes_ix
                   /\ Staged[G1.size] = ChunkLen
                   /\ yld.notes_ix % USB_PKT_DATA_LEN("g1") = 0
             /\ IF NotesLeft > ChunkLen
                THEN /\ yld'.notes_ix = yld.notes_ix + ChunkLen
                     /\ yld'.copy[OFS.ringnote_mod] # yld'.master[OFS.ringnote_mod]
                     /\ yld'.stat_ix = OFS.ringnote_mod
                ELSE /\ yld'.notes_ix = 0
                     /\ yld'.copy[OFS.ringnote_mod] = yld'.master[OFS.ringnote_mod]]_vars

\* the third and last packet of an upload has been staged
C28_Witness ==
    /\ Len(out) = 1 /\ out[1][2][G1.cmd] = CMD.RING_NOTE
    /\ out[1][2][G1.offset + 1] = 2 * USB_PKT_DATA_LEN("g1")
    /\ yld.notes_ix = 0
    /\ yld.copy[OFS.ringnote_mod] = yld.master[OFS.ringnote_mod]

\* the control packets handed to the USB core among the events evs
CtlPackets(evs) == {evs[k][2] : k \in {j \in 1..Len(evs) : evs[j][1] = "pkt"}}

\* C29: on a Generation-1 device, from the staging of a RING_NOTE packet that
\* is not the last of its upload (notes_ix # 0) to the staging of the last
\* one, every control request submitted is a RING_NOTE packet, whether the
\* timer has expired or usb_pause is set.
C29_UploadNotBroken ==
    [][(IsG1 /\ yld.notes_ix # 0) =>
          \A p \in CtlPackets(out') : p[G1.cmd] = CMD.RING_NOTE]_vars

\* a chunk that is neither the first nor the last of its upload has been
\* submitted with the timer expired and usb_pause set
C29_Witness ==
    /\ IsG1 /\ yld.notes_ix # 0
    /\ yld.usb_pause /\ yld.timer_expired
    /\ \E p \in CtlPackets(out) :
          p[G1.cmd] = CMD.RING_NOTE /\ p[G1.offset + 1] # 0

----------------------------------------------------------------------------
(* Claims about the LED after a PSTN_SWITCH packet *)

\* the LED packet of a B2K or B3G for the master image of y
LedPacketFor(y, p) ==
    /\ p[G1.cmd] = CMD.LED
    /\ p[G1.data] = IF y.master[OFS.led] # 0 /\ y.master[OFS.pstn] = 0
                    THEN 255 ELSE 0
    /\ p[G1.data + 1] = IF y.master[OFS.pstn] # 0 \/ y.pstn_ring # 0
                        THEN 255 ELSE 0

\* C30: a run of prepare_update_cmd that stages a PSTN_SWITCH packet leaves
\* copy.led the complement of master.led; from then on copy.led comes to equal
\* master.led only in a run that stages the LED packet computed from the pstn
\* flag as it is then; and no run reports that nothing is pending while
\* copy.led differs from master.led.
C30_LedAfterPstn ==
    [][PlanReturns =>
         /\ (PlanEmits /\ Staged[G1.cmd] = CMD.PSTN_SWITCH) =>
               yld'.copy[OFS.led] = Not8(yld'.master[OFS.led])
         /\ (/\ yld.copy[OFS.led] = Not8(yld.master[OFS.led])
             /\ yld'.copy[OFS.led] = yld'.master[OFS.led]) =>
               PlanEmits /\ LedPacketFor(yld', Staged)
         /\ (ret' = 0 /\ fcheck(yld.model, OFS.led)) =>
               yld'.copy[OFS.led] = yld'.master[OFS.led]]_vars

\* a PSTN_SWITCH packet has been staged and the LED is marked for a packet
C30_Witness ==
    /\ Len(out) = 1 /\ out[1][2][G1.cmd] = CMD.PSTN_SWITCH
    /\ yld.copy[OFS.led] = Not8(yld.master[OFS.led])
    /\ yld.master[OFS.pstn] = 1
    /\ ret # 0

----------------------------------------------------------------------------
(* Claims about the key-code request *)

\* a device with any key number in master, in copy the same number or
\* another one, the cursor before or on keynum, an LCD byte changed or not
InitScancode ==
    /\ \E m \in Models, v \in Byte, same \in BOOLEAN, ix \in {OFS.lcd, OFS.keynum},
          D \in {{}, {OFS.lcd}} :
          yld = [PlanImage([NewDev(m, 0) EXCEPT !.last_cmd = CMD.KEYPRESS], D, {})
                 EXCEPT !.master[OFS.keynum] = v,
                        !.copy[OFS.keynum] = IF same THEN v ELSE Not8(v),
                        !.stat_ix = ix]
    /\ Quiet
    /\ out = <<>>
    /\ ret = -1
    /\ calls = 0

SpecScancode == InitScancode /\ [][NextPlan]_vars

\* a call of prepare_update_cmd returns in this step
PlanRuns == ret' # ret \/ calls' # calls

\* the call stages a SCANCODE request
ScancodeStaged == PlanEmits /\ Staged[G1.cmd] = CMD.SCANCODE

\* keynum is the first offset, from the cursor on, where the planner of a
\* Generation-1 device has something to send
KeynumFound ==
    /\ IsG1
    /\ yld.master[OFS.keynum] # yld.copy[OFS.keynum]
    /\ Round(yld.stat_ix, OFS.keynum) \cap Pending(yld) = {}

\* C31: a call of prepare_update_cmd stages a SCANCODE request exactly when
\* the device is of Generation 1 and the first difference the call finds is
\* keynum; the request has size 1 and the offset (master.keynum - 1) mod 32.
\* A Generation-2 planner never stages a scan request.
C31_Scancode ==
    [][PlanRuns =>
         /\ ScancodeStaged <=> KeynumFound
         /\ ScancodeStaged =>
               /\ Staged[G1.size] = 1
               /\ Staged[G1.offset] = 0
               /\ Staged[G1.offset + 1] = (yld.master[OFS.keynum] + 255) % 32
         /\ (IsG2 /\ PlanEmits) => Staged[G1.cmd] \notin ScanCmds]_vars

\* the request for key number 0 is staged: offset 31
C31_Witness ==
    /\ IsG1
    /\ yld.master[OFS.keynum] = 0
    /\ Len(out) = 1 /\ out[1][2][G1.cmd] = CMD.SCANCODE
    /\ out[1][2][G1.offset + 1] = 31

\* on a Generation-2 device no scan request is handed to the control endpoint
C31_NoScanOnG2 ==
    IsG2 => \A p \in CtlPackets(out) : p[G1.cmd] \notin ScanCmds

----------------------------------------------------------------------------
(* Claims about the LCD packet *)

\* the first offset, from the cursor on, where the planner has something to
\* send (a set of one offset, or none)
FirstPending(y) ==
    {k \in Pending(y) : Round(y.stat_ix, k) \cap Pending(y) = {}}

\* the longest run of LCD bytes a packet of the protocol takes
LcdRunMax(p) == IF p = "g1" THEN 11 ELSE 4

\* the length of the run that starts at LCD offset o
LcdRun(p, o) == IF LcdSize - o < LcdRunMax(p) THEN LcdSize - o ELSE LcdRunMax(p)

\* C32: when the first difference the planner finds is in the LCD region, at
\* LCD offset o, the call stages one LCD packet for the run of
\* len = min(24 - o, 11) bytes (Generation 1, offset and size in the header)
\* or min(24 - o, 4) bytes (Generation 2, size and offset in the first two
\* payload bytes) carrying master's bytes; copy takes master's value on all of
\* the run, the run ends at lcd[23] at the latest, any other byte of copy that
\* changes is one with nothing to send (it takes master's value), and the
\* cursor is left at o + len.
C32_LcdRun ==
    [][PlanRuns =>
         \A k \in FirstPending(yld) : InLcd(k) =>
            LET p   == protocol(yld.model)
                o   == k - OFS.lcd
                len == LcdRun(p, o)
            IN  /\ PlanEmits
                /\ Staged[G1.cmd] = CMD.LCD
                /\ IF p = "g1"
                   THEN /\ Staged[G1.offset] = 0 /\ Staged[G1.offset + 1] = o
                        /\ Staged[G1.size] = len
                        /\ \A i \in 0..(len - 1) :
                              Staged[G1.data + i] = yld.master[k + i]
                   ELSE /\ Staged[G2.data] = len /\ Staged[G2.data + 1] = o
                        /\ \A i \in 0..(len - 1) :
                              Staged[G2.data + 2 + i] = yld.master[k + i]
                /\ o + len <= LcdSize
                /\ \A i \in 0..(StatusSize - 1) :
                      IF i \in k..(k + len - 1)
                      THEN yld'.copy[i] = yld.master[i]
                      ELSE yld'.copy[i] # yld.copy[i] =>
                              /\ i \notin Pending(yld)
                              /\ yld'.copy[i] = yld.master[i]
                /\ yld'.stat_ix = (k + len) % StatusSize
                /\ yld'.master = yld.master]_vars

\* a run cut short by the end of the LCD region has been staged with a
\* longer run before it
C32_Witness ==
    /\ calls >= 2
    /\ Len(out) = 1 /\ out[1][2][G1.cmd] = CMD.LCD
    /\ yld.stat_ix = LcdSize
    /\ yld.copy[OFS.lcd + LcdSize - 1] = 1 /\ yld.master[OFS.lcd + LcdSize - 1] = 1

----------------------------------------------------------------------------
(* The sequence of scan requests of a Generation-1 device, across the calls *)
(* of restore_state that init_state, usb_suspend and usb_resume make        *)

InitScans ==
    /\ \E m \in {n \in Models : protocol(n) = "g1"}, g \in Garbage :
          yld = restore_state(NewDev(m, g))
    /\ Quiet
    /\ out = <<>>
    /\ ret = -1
    /\ calls = 0

\* submit_scan_request once more, the request added to the log
ScanNext ==
    /\ Len(SelectSeq(out, LAMBDA e : e[1] = "pkt")) < MaxScans
    /\ yld' = scan_request(yld)
    /\ out' = Append(out, Packet(yld'.ctl_data, USB_PKT_LEN("g1")))
    /\ UNCHANGED <<urb_ctl, urb_irq, timer, pc, loc, env, ret, calls>>

\* restore_state between two scan requests (close and reopen, or suspend
\* and resume)
RestoreState ==
    /\ env.pmcalls < MaxPmCalls
    /\ yld' = restore_state(yld)
    /\ out' = Append(out, <<"restore">>)
    /\ env' = [env EXCEPT !.pmcalls = @ + 1]
    /\ UNCHANGED <<urb_ctl, urb_irq, timer, pc, loc, ret, calls>>

NextScans == ScanNext \/ RestoreState

SpecScans == InitScans /\ [][NextScans]_vars

\* the hook scan of the model, 0 if it has none
HookScan(m) ==
    CASE m = "P4K" -> CMD.HOOKPRESS
      [] m = "B2K" -> CMD.HANDSET
      [] OTHER     -> 0

\* the commands of the scan requests logged, in their order
ScanSeq(evs) ==
    LET S == SelectSeq(evs, LAMBDA e : e[1] = "pkt")
    IN  [i \in 1..Len(S) |-> S[i][2][G1.cmd]]

----------------------------------------------------------------------------
(* Hook and PSTN-ring responses decoded by urb_irq_callback *)

\* payload bytes that set and clear the bits the decoder looks at
HookBytes == {0, 1, 2, 3, 16, 17, 237, 255}

InitHook ==
    /\ \E m \in Models, o \in BOOLEAN :
          yld = [restore_state(NewDev(m, 0)) EXCEPT !.open = o]
    /\ Quiet
    /\ out = <<>>
    /\ ret = -1
    /\ calls = 0

\* urb_irq_callback decodes a well-formed HOOKPRESS, HANDSET or KEYPRESS
\* response (data[1] is read after KEYPRESS only); the packet is kept in loc
HookIn ==
    /\ \E cmd \in {CMD.HOOKPRESS, CMD.HANDSET, CMD.KEYPRESS},
          d0 \in HookBytes, d1 \in {0, 1}, d2 \in {0, 1} :
          LET p == InPacket(protocol(yld.model), cmd, d0, d1, d2)
              d == irq_decode(yld, p)
          IN  /\ cmd = CMD.KEYPRESS => d0 = 0
              /\ cmd # CMD.KEYPRESS => d1 = 0
              /\ yld' = d.y
              /\ out' = d.ev
              /\ loc' = [loc EXCEPT !["cb"].pkt = p]
    /\ UNCHANGED <<urb_ctl, urb_irq, timer, pc, env, ret, calls>>

SpecHook == InitHook /\ [][HookIn]_vars

\* the hook bit a HOOKPRESS or HANDSET response carries: ~data0 & 0x10 of
\* HOOKPRESS, the same of (u8)(~data0 << 3) on B2K and of data[2] << 4 else
HookBit(m, p) ==
    LET data0 == IF protocol(m) = "g1" THEN p[G1.data] ELSE p[G2.data]
    IN  IF p[G1.cmd] = CMD.HOOKPRESS THEN 1 - ((data0 \div 16) % 2)
        ELSE IF m = "B2K" THEN (data0 \div 2) % 2
        ELSE 1 - (p[G1.data + 2] % 2)

\* the ring bit a HANDSET response carries
RingBit(m, p) == (IF protocol(m) = "g1" THEN p[G1.data] ELSE p[G2.data]) % 2

\* the key events among the events of a step
KeyReports(evs) == SelectSeq(evs, LAMBDA e : e[1] = "key")

\* C34: a valid HOOKPRESS or HANDSET response yields a KEY_PHONE event if and
\* only if the device is open and the hook bit decoded differs from hookstate;
\* the value of the event is the new bit, and hookstate holds the decoded bit
\* (as the mask 0x10) afterwards.  A HANDSET response does the same for the
\* ring bit with KEY_P and pstn_ring, and the ring event comes first.
C34_HookEvents ==
    [][LET p    == loc'["cb"].pkt
           cmd  == p[G1.cmd]
           hb   == HookBit(yld.model, p)
           rb   == RingBit(yld.model, p)
           hev  == IF yld.open /\ yld.hookstate # 16 * hb
                   THEN <<input_report_key(KEY.PHONE, hb)>> ELSE <<>>
           rev  == IF cmd = CMD.HANDSET /\ yld.open /\ yld.pstn_ring # rb
                   THEN <<input_report_key(KEY.P, rb)>> ELSE <<>>
       IN  cmd \in {CMD.HOOKPRESS, CMD.HANDSET} =>
              /\ KeyReports(out') = rev \o hev
              /\ yld'.hookstate = 16 * hb
              /\ yld'.pstn_ring = IF cmd = CMD.HANDSET THEN rb ELSE yld.pstn_ring]_vars

\* one response has changed both bits on an open device: ring event, then
\* hook event
C34_Witness ==
    /\ yld.open
    /\ loc["cb"].pkt # <<>> /\ loc["cb"].pkt[G1.cmd] = CMD.HANDSET
    /\ Len(KeyReports(out)) = 2
    /\ KeyReports(out)[1][2] = KEY.P /\ KeyReports(out)[2][2] = KEY.PHONE

----------------------------------------------------------------------------
(* Claims about what the completion handlers of a Generation-1 device do *)

\* urb_ctl_callback, resp. urb_irq_callback, is at work on a G1 device
InCtlG1 == IsG1 /\ pc["cb"] # "idle" /\ loc["cb"].urb = "ctl"

InIrqG1 == IsG1 /\ pc["cb"] # "idle" /\ loc["cb"].urb = "irq"

\* the requests that are answered on the interrupt endpoint
Requests == {CMD.KEYPRESS, CMD.HOOKPRESS, CMD.HANDSET, CMD.SCANCODE}

\* the callback is left where perform_single_update_g1, run on device y, leaves
\* it: the flags and the packet set, the submission decided
PerformRan(y) ==
    LET r == perform_g1_locked(y)
    IN  /\ yld' = r.y
        /\ pc'["cb"] = "S" /\ loc'["cb"].todo = r.todo

----------------------------------------------------------------------------
(* Claims about the flags of the cycle and the transfers behind them *)

\* no handler of the driver is running
NoHandler == \A c \in Ctx : pc[c] = "idle"

\* C36: on a registered Generation-1 device that is not suspended, whenever
\* scan_active or update_active is set while no handler is running, a control
\* or an interrupt transfer is outstanding.
C36_FlagsBacked ==
    (/\ IsG1 /\ env.registered /\ ~env.suspended /\ ~env.gone
     /\ NoHandler
     /\ yld.scan_active \/ yld.update_active) => Busy

----------------------------------------------------------------------------
(* An open session that is closed and opened again.  It starts where        *)
(* InitOpen starts, with the calls of context pm still to come; every       *)
(* submission is accepted unless the URB is in flight, and nobody touches   *)
(* the keys.                                                                *)

InitSession ==
    /\ \E m \in CycleModels :
          yld = [init_state(NewDev(m, 0)) EXCEPT
                    !.open = TRUE, !.pm_mutex = TRUE,
                    !.timer_expired = protocol(m) = "g2"]
    /\ urb_ctl = "idle"
    /\ urb_irq = IF protocol(yld.model) = "g2" THEN "inflight" ELSE "idle"
    /\ timer = (protocol(yld.model) = "g1")
    /\ pc = [c \in Ctx |-> IF c = "pm" THEN "st_poke" ELSE "idle"]
    /\ loc = [c \in Ctx |-> IF c = "pm" THEN [NoLoc EXCEPT !.retpc = "open_ret"]
                            ELSE NoLoc]
    /\ env = [NoEnv EXCEPT !.registered = TRUE]
    /\ out = <<>>
    /\ ret = 0
    /\ calls = 0

NextSession ==
    \/ Cycle({TRUE}, {"ok", "err"}, QuietResponses(yld))
    \/ InputOpen
    \/ OpenWait
    \/ OpenInit(TRUE)
    \/ OpenRet
    \/ InputClose
    \/ CloseDel

SpecSession == InitSession /\ [][NextSession]_vars

----------------------------------------------------------------------------
(* Claims about input_close, input_open and their locks *)

\* input_close returns in this step
CloseReturns == pc["pm"] = "close_del" /\ pc'["pm"] = "idle"

\* nothing is left that would run a handler of the cycle: no transfer is
\* outstanding, no timer is pending, no handler is running
Still == NoHandler /\ ~Busy /\ ~timer

\* C37: when input_close returns and leaves the device still, so that no
\* handler will run by itself any more, usb_active_sem has been released.
C37_ReleasedAfterClose ==
    [][(CloseReturns /\ Still') => yld'.usb_active_sem > 0]_vars

\* C38: while neither input_open, input_close, usb_suspend nor usb_resume is
\* running, pm_mutex is free.
C38_MutexReleased ==
    (~env.gone /\ pc["pm"] = "idle") => ~yld.pm_mutex

----------------------------------------------------------------------------
(* Claims about URBs submitted while they are outstanding *)

\* C39: no step calls usb_submit_urb on a URB that is outstanding.
C39_NoDoubleSubmit ==
    [][\A i \in 1..Len(out') :
          out'[i][1] = "submit" => ~InFlight(out'[i][2])]_vars

----------------------------------------------------------------------------
(* restore_state, set_ringnotes and prepare_update_cmd called in any order  *)

\* restore_state, as init_state and usb_resume call it; a new drain may follow
RestoreCall ==
    /\ env.pmcalls < MaxPmCalls
    /\ yld' = restore_state(yld)
    /\ ret' = -1 /\ calls' = 0 /\ out' = <<>>
    /\ env' = [env EXCEPT !.pmcalls = @ + 1]
    /\ UNCHANGED <<urb_ctl, urb_irq, timer, pc, loc>>

\* set_ringnotes and ringnote_mod++, as store_ringtone calls it, mem telling
\* whether kmalloc succeeds; a new drain may follow
NotesCall(buf, mem) ==
    /\ env.writes < MaxWrites
    /\ yld' = [(IF mem THEN set_ringnotes(yld, buf, Len(buf))
                ELSE set_ringnotes_nomem(yld, buf, Len(buf))) EXCEPT
                 !.master[OFS.ringnote_mod] = (@ + 1) % 256]
    /\ ret' = -1 /\ calls' = 0 /\ out' = <<>>
    /\ env' = [env EXCEPT !.writes = @ + 1]
    /\ UNCHANGED <<urb_ctl, urb_irq, timer, pc, loc>>

NextCalls ==
    \/ Plan
    \/ RestoreCall
    \/ \E buf \in NoteInputs \cup {LongNotes}, mem \in BOOLEAN : NotesCall(buf, mem)

SpecCalls == InitUpload /\ [][NextCalls]_vars

\* the cursor is inside the status image; while a ring-note buffer exists,
\* notes_ix is inside its notes_len bytes
IndexesInRange ==
    /\ yld.stat_ix \in 0..(StatusSize - 1)
    /\ yld.ring_notes # <<>> =>
          /\ yld.notes_len = Len(yld.ring_notes)
          /\ yld.notes_ix \in 0..(yld.notes_len - 1)

\* the number of ring-note bytes the packet staged in this step has taken
NotesRead ==
    IF yld'.notes_ix = 0 THEN yld.notes_len - yld.notes_ix
    ELSE yld'.notes_ix - yld.notes_ix

\* C40: after any sequence of restore_state, set_ringnotes and
\* prepare_update_cmd calls 0 <= stat_ix < 33 holds, and
\* 0 <= notes_ix < notes_len while a ring-note buffer exists; a RING_NOTE
\* packet is staged only from a buffer that exists, out of the bytes
\* notes_ix .. notes_ix + n - 1 with notes_ix + n <= notes_len, and every
\* packet covers offsets of the status image only.
C40_IndexesInRange ==
    /\ []IndexesInRange
    /\ [][PlanEmits =>
            /\ Served \subseteq 0..(StatusSize - 1)
            /\ Staged[G1.cmd] = CMD.RING_NOTE =>
                  /\ yld.ring_notes # <<>>
                  /\ NotesRead >= 1
                  /\ yld.notes_ix + NotesRead <= yld.notes_len
                  /\ \A i \in 0..(NotesRead - 1) :
                        Staged[DataAt(yld.model) + i] =
                           yld.ring_notes[yld.notes_ix + i + 1]]_vars

\* set_ringnotes has replaced the buffer, restore_state has run, and an upload
\* of several packets is under way again
C40_Witness ==
    /\ env.writes > 0 /\ env.pmcalls > 0
    /\ yld.ring_notes # <<>>
    /\ yld.notes_ix > 0
    /\ yld.stat_ix = OFS.ringnote_mod

====
